---- MODULE Spec2Model ----
(***************************************************************************)
(* State-machine model of pymaid/core.py: the lazily populated             *)
(* CatmaidNeuron, the CatmaidNeuronList built on it and its indexers.      *)
(*                                                                         *)
(* Objects live in `heap` (object id -> attribute record).  Every          *)
(* attribute that Python keeps in the instance __dict__ only once it has   *)
(* been resolved is an option: {} when the attribute is not in __dict__,   *)
(* {v} when it is cached with value v.  Every action is one call of a      *)
(* method of core.py; `op` names the call, `calls` lists the calls it made *)
(* to the external collaborators of pymaid, `ret` is what it returned or   *)
(* raised, and `pre`/`prenl` are the heap and the list just before it.     *)
(***************************************************************************)
EXTENDS Integers, Sequences, FiniteSets, TLC

VARIABLES heap, nl, op, calls, ret, pre, prenl

vars == <<heap, nl, op, calls, ret, pre, prenl>>

None == "None"
Unset == {}
Some(v) == {v}
Has(n, key) == n[key] # {}
Val(n, key) == CHOOSE v \in n[key] : TRUE

(***************************************************************************)
(* The remote server (behind pymaid.get_neuron, get_review, ...).          *)
(* One reconstruction, returned for every skeleton id:                     *)
(*     1 -- 2 -- 3 -- 4 -- 5          1 root, 2 and 3 slabs, 4 branch,     *)
(*                    \-- 6          5 and 6 ends; connectors on 2 and 6. *)
(***************************************************************************)
Parent0 == <<0, 1, 2, 3, 4, 4>>
NodeIds == DOMAIN Parent0
ServerConnectors == {2, 6}
ServerTags == [t \in {"soma", "ends"} |-> IF t = "soma" THEN {4} ELSE {5}]
ServerName == "PN glomerulus"
ServerAnnotations == <<"uPN right">>
ServerReview == 90
\* the annotations the server holds for a skeleton id
ServerAnnotationsOf(skid) ==
    IF skid = "21999" THEN <<"uPN right", "glomerulus DA1">>
    ELSE IF skid = "22132" THEN <<>>
    ELSE ServerAnnotations
Radius0 == [v \in NodeIds |-> IF v = 4 THEN 1000 ELSE 10]

RECURSIVE Anc0(_)
\* v and its ancestors in the server's tree
Anc0(v) == IF v = 0 THEN {} ELSE {v} \cup Anc0(Parent0[v])

\* the nodes of the unique path between u and v in the server's tree
PathTable ==
    [u \in NodeIds, v \in NodeIds |->
        LET c == Anc0(u) \cap Anc0(v)
            lca == CHOOSE w \in c : \A z \in c : Cardinality(Anc0(z)) <= Cardinality(Anc0(w))
        IN ((Anc0(u) \cup Anc0(v)) \ c) \cup {lca}]
PathSet(u, v) == PathTable[u, v]
PathLen(u, v) == Cardinality(PathTable[u, v])

(***************************************************************************)
(* A node table is [root, ids, type]: the node ids it holds, which of them *)
(* has the null parent, and the 'type' column (an option: absent, or the   *)
(* classification that was computed for some table).  The parent of a node *)
(* is the nearest node of the table on the way to the root.                *)
(***************************************************************************)
ParentIn(t, v) ==
    IF v = t.root \/ t.ids = {} THEN 0
    ELSE LET on == (t.ids \cap PathSet(v, t.root)) \ {v}
         IN CHOOSE w \in on : \A z \in on : PathLen(v, w) <= PathLen(v, z)

Children(t, v) == {w \in t.ids : ParentIn(t, w) = v}

\* morpho.classify_nodes: root / branch / slab / end for every node
classify_nodes(t) ==
    [v \in t.ids |->
        IF v = t.root THEN "root"
        ELSE IF Cardinality(Children(t, v)) = 0 THEN "end"
        ELSE IF Cardinality(Children(t, v)) = 1 THEN "slab"
        ELSE "branch"]

Table(root, ids) == [root |-> root, ids |-> ids, type |-> Unset]
Bare(t) == Table(t.root, t.ids)
Typed(t) == [Bare(t) EXCEPT !.type = Some(classify_nodes(Bare(t)))]
EmptyTable == Table(0, {})

\* igraph_catmaid.neuron2graph: vertices are node ids, edges child -> parent
neuron2graph(t) ==
    [vs |-> t.ids, es |-> {<<v, ParentIn(t, v)>> : v \in t.ids \ {t.root}}]

RECURSIVE SlabFrom(_, _)
\* the unbranched run from v up to the next branch point or the root
SlabFrom(t, v) ==
    LET p == ParentIn(t, v)
    IN IF p = 0 THEN {v}
       ELSE IF p = t.root \/ Cardinality(Children(t, p)) > 1 THEN {v, p}
       ELSE {v} \cup SlabFrom(t, p)

\* morpho._generate_slabs: one slab per end or branch node
generate_slabs(t) ==
    {SlabFrom(t, v) : v \in {w \in t.ids \ {t.root} : Cardinality(Children(t, w)) # 1}}

\* igraph.shortest_paths_dijkstra on the graph g: hop counts between vertices
shortest_paths(g) ==
    [p \in g.vs \X g.vs |-> Cardinality(g.vs \cap PathSet(p[1], p[2])) - 1]

\* morpho.calc_cable: the number of edges stands in for the summed length
calc_cable(t) == IF t.ids = {} THEN 0 ELSE Cardinality(t.ids) - 1

(***************************************************************************)
(* CatmaidNeuron.  A method is an operator from the object (and the        *)
(* arguments) to a result [n, calls, exc, val]: the object as the method   *)
(* leaves it, the collaborator calls it made, the exception it raised ("" *)
(* when it returned) and the value it returned.                            *)
(***************************************************************************)
Ok(n, c, v) == [n |-> n, calls |-> c, exc |-> "", val |-> v]
Raise(n, c, e) == [n |-> n, calls |-> c, exc |-> e, val |-> None]

\* s after r: r when r raised, else s with r's calls in front of its own
Join(r, s) == IF r.exc # "" THEN r ELSE [s EXCEPT !.calls = r.calls \o s.calls]

\* F on the object r left behind, unless r raised; the calls accumulate
Then(r, F(_)) == Join(r, F(r.n))

Call(fn, skids, ri) == [fn |-> fn, skids |-> skids, ri |-> ri]

MissingSession == "Exception: unable to connect to server without remote_instance"

\* the instance __dict__ before __init__ has run
NoDict ==
    [skeleton_id |-> "", _remote_instance |-> None, _meta_data |-> None,
     soma_detection_radius |-> 0, soma_detection_tag |-> None, color |-> <<0, 0, 0>>,
     nodes |-> Unset, connectors |-> Unset, tags |-> Unset, neuron_name |-> Unset,
     annotations |-> Unset, review_status |-> Unset,
     igraph |-> Unset, slabs |-> Unset, nodes_geodesic_distance_matrix |-> Unset]

Structural == {"nodes", "connectors", "tags"}
Derived == {"igraph", "slabs", "nodes_geodesic_distance_matrix"}
Meta == {"neuron_name", "annotations", "review_status"}
Counts == {"n_open_ends", "n_branch_nodes", "n_end_nodes", "n_nodes", "n_connectors", "cable_length"}
ZeroWhenEmpty == {"n_open_ends", "n_branch_nodes", "n_end_nodes", "cable_length"}

\* pymaid.get_neuron(skid, remote_instance, return_df=True): the row of one skeleton
pymaid_get_neuron(skid) ==
    [skeleton_id |-> skid, nodes |-> Table(1, NodeIds), connectors |-> ServerConnectors,
     tags |-> ServerTags, neuron_name |-> ServerName]

\* seeded fault: the distance matrix is left in __dict__
ClearCachedKeepsMatrix(self) ==
    [self EXCEPT !.igraph = Unset, !.slabs = Unset,
                 !.nodes = Some(Typed(Val(self, "nodes")))]

\* _clear_temp_attr on a neuron whose node table is in __dict__
ClearCached(self) ==
    [self EXCEPT !.igraph = Unset, !.slabs = Unset, !.nodes_geodesic_distance_matrix = Unset,
                 \* the 'type' column is dropped and the nodes are classified again
                 !.nodes = Some(Typed(Val(self, "nodes")))]

\* seeded fault: the fetched neuron_name is not assigned
StoreSkeletonWithoutName(self, skeleton) ==
    [self EXCEPT !.nodes = Some(Typed(skeleton.nodes)),
                 !.connectors = Some(skeleton.connectors),
                 !.tags = Some(skeleton.tags),
                 !.igraph = Unset, !.slabs = Unset, !.nodes_geodesic_distance_matrix = Unset]

\* the assignments of one fetched row to a neuron (get_skeleton and get_skeletons
\* alike); the closing n._clear_temp_attr() finds the node table just assigned
StoreSkeleton(self, skeleton) ==
    ClearCached([self EXCEPT !.nodes = Some(IF skeleton.nodes.type = Unset
                                            THEN Typed(skeleton.nodes) ELSE skeleton.nodes),
                             !.connectors = Some(skeleton.connectors),
                             !.tags = Some(skeleton.tags),
                             !.neuron_name = Some(skeleton.neuron_name)])

\* seeded fault: the fetch goes out without a session
get_skeleton_unguarded(self, remote_instance) ==
    Ok(StoreSkeleton(self, pymaid_get_neuron(self.skeleton_id)),
       <<Call("get_neuron", <<self.skeleton_id>>,
              IF remote_instance = None THEN self._remote_instance ELSE remote_instance)>>,
       None)

get_skeleton(self, remote_instance) ==
    IF remote_instance = None /\ self._remote_instance = None
    THEN Raise(self, <<>>, MissingSession)
    ELSE Ok(StoreSkeleton(self, pymaid_get_neuron(self.skeleton_id)),
            <<Call("get_neuron", <<self.skeleton_id>>,
                   IF remote_instance = None THEN self._remote_instance ELSE remote_instance)>>,
            None)

\* `c in self.nodes` resolves the node table (get_skeleton) when it is not cached
_clear_temp_attr(self) ==
    IF Has(self, "nodes") THEN Ok(ClearCached(self), <<>>, None)
    ELSE Then(get_skeleton([self EXCEPT !.igraph = Unset, !.slabs = Unset,
                                        !.nodes_geodesic_distance_matrix = Unset], None),
              LAMBDA s : Ok(ClearCached(s), <<>>, None))

\* seeded fault: without a session the call raises, as get_skeleton does
get_review_raising(self, remote_instance) ==
    IF remote_instance = None /\ self._remote_instance = None
    THEN Raise(self, <<>>, MissingSession)
    ELSE Ok([self EXCEPT !.review_status = Some(ServerReview)],
            <<Call("get_review", <<self.skeleton_id>>,
                   IF remote_instance = None THEN self._remote_instance ELSE remote_instance)>>,
            ServerReview)

get_review(self, remote_instance) ==
    IF remote_instance = None /\ self._remote_instance = None
    THEN Ok(self, <<>>, None)
    ELSE LET ri == IF remote_instance = None THEN self._remote_instance ELSE remote_instance
         IN Ok([self EXCEPT !.review_status = Some(ServerReview)],
               <<Call("get_review", <<self.skeleton_id>>, ri)>>, ServerReview)

get_annotations(self, remote_instance) ==
    IF remote_instance = None /\ self._remote_instance = None
    THEN Ok(self, <<>>, None)
    ELSE LET ri == IF remote_instance = None THEN self._remote_instance ELSE remote_instance
         IN Ok([self EXCEPT !.annotations = Some(ServerAnnotationsOf(self.skeleton_id))],
               <<Call("get_annotations", <<self.skeleton_id>>, ri)>>,
               ServerAnnotationsOf(self.skeleton_id))

get_name(self, remote_instance) ==
    IF remote_instance = None /\ self._remote_instance = None
    THEN Ok(self, <<>>, None)
    ELSE LET ri == IF remote_instance = None THEN self._remote_instance ELSE remote_instance
         IN Ok([self EXCEPT !.neuron_name = Some(ServerName)],
               <<Call("get_names", <<self.skeleton_id>>, ri)>>, ServerName)

\* self.nodes / self.connectors / self.tags: __dict__, else __getattr__ -> get_skeleton
ReadStructural(self, key) ==
    IF Has(self, key) THEN Ok(self, <<>>, Val(self, key))
    ELSE Then(get_skeleton(self, None), LAMBDA s : Ok(s, <<>>, Val(s, key)))

SetIgraph(s) == Ok([s EXCEPT !.igraph = Some(neuron2graph(Val(s, "nodes")))], <<>>,
                   neuron2graph(Val(s, "nodes")))

get_igraph(self) == Then(ReadStructural(self, "nodes"), SetIgraph)

\* self.igraph: __dict__, else __getattr__ -> get_igraph
ReadIgraph(self) ==
    IF Has(self, "igraph") THEN Ok(self, <<>>, Val(self, "igraph")) ELSE get_igraph(self)

SetSlabs(s) == Ok([s EXCEPT !.slabs = Some(generate_slabs(Val(s, "nodes")))], <<>>,
                  generate_slabs(Val(s, "nodes")))

_get_slabs(self) == Then(ReadStructural(self, "nodes"), SetSlabs)

SetMatrix(s) ==
    Ok([s EXCEPT !.nodes_geodesic_distance_matrix = Some(shortest_paths(Val(s, "igraph")))],
       <<>>, shortest_paths(Val(s, "igraph")))

\* a list of node ids in node-table order
RECURSIVE AsList(_)
AsList(S) ==
    IF S = {} THEN <<>>
    ELSE LET m == CHOOSE v \in S : \A w \in S : v <= w IN <<m>> \o AsList(S \ {m})

\* seeded fault: the tag is looked up but does not restrict the candidates
SomaOfAnyTag(s) ==
    LET tn == {v \in Val(s, "nodes").ids : Radius0[v] > s.soma_detection_radius}
        tags == Val(s, "tags")
    IN IF s.soma_detection_tag # None /\ s.soma_detection_tag \notin DOMAIN tags
       THEN Ok(s, <<>>, None)
       ELSE IF Cardinality(tn) = 1 THEN Ok(s, <<>>, CHOOSE v \in tn : TRUE)
       ELSE IF tn = {} THEN Ok(s, <<>>, None)
       ELSE Ok(s, <<>>, AsList(tn))

SomaOf(s) ==
    LET big == {v \in Val(s, "nodes").ids : Radius0[v] > s.soma_detection_radius}
        tags == Val(s, "tags")
        tn == IF s.soma_detection_tag # None THEN big \cap tags[s.soma_detection_tag] ELSE big
    IN IF s.soma_detection_tag # None /\ s.soma_detection_tag \notin DOMAIN tags
       THEN Ok(s, <<>>, None)
       ELSE IF Cardinality(tn) = 1 THEN Ok(s, <<>>, CHOOSE v \in tn : TRUE)
       ELSE IF tn = {} THEN Ok(s, <<>>, None)
       ELSE Ok(s, <<>>, AsList(tn))

\* self.nodes, then self.tags, are read through the lazy accessor
_get_soma(self) == Then(ReadStructural(self, "nodes"), SomaOf)

RootOf(s) ==
    IF Val(s, "nodes").ids = {} THEN Raise(s, <<>>, "IndexError")
    ELSE Ok(s, <<>>, Val(s, "nodes").root)

_get_root(self) == Then(ReadStructural(self, "nodes"), RootOf)

OfType(t, ty) == {v \in t.ids : Val(t, "type")[v] = ty}
TagGet(tags, k) == IF k \in DOMAIN tags THEN tags[k] ELSE {}

\* the counts and the cable length of a neuron whose node table is cached
CountOf(self, key) ==
    LET t == Val(self, "nodes")
        tags == Val(self, "tags")
        closed == TagGet(tags, "ends") \cup TagGet(tags, "uncertain end")
                  \cup TagGet(tags, "uncertain continuation")
                  \cup TagGet(tags, "not a branch") \cup TagGet(tags, "soma")
    IN CASE key = "n_open_ends" -> Cardinality(OfType(t, "end") \ closed)
         [] key = "n_branch_nodes" -> Cardinality(OfType(t, "branch"))
         [] key = "n_end_nodes" -> Cardinality(OfType(t, "end"))
         [] key = "n_nodes" -> Cardinality(t.ids)
         [] key = "cable_length" -> calc_cable(t)

\* seeded fault: the counts of an empty neuron read as 'NA'
__getattr__NA_when_empty(self, key) ==
    IF Has(self, "nodes") /\ Val(self, "nodes").ids = {} /\ key \in ZeroWhenEmpty
    THEN Ok(self, <<>>, "NA")
    ELSE CASE key = "igraph" -> get_igraph(self)
           [] key = "nodes_geodesic_distance_matrix" -> Then(ReadIgraph(self), SetMatrix)
           [] key = "neuron_name" -> get_name(self, None)
           [] key = "annotations" -> get_annotations(self, None)
           [] key = "review_status" -> get_review(self, None)
           [] key \in Structural -> ReadStructural(self, key)
           [] key = "slabs" -> _get_slabs(self)
           [] key = "soma" -> _get_soma(self)
           [] key = "root" -> _get_root(self)
           [] key = "n_connectors" ->
                IF Has(self, "connectors")
                THEN Ok(self, <<>>, Cardinality(Val(self, "connectors")))
                ELSE Ok(self, <<>>, "NA")
           [] key \in Counts \ {"n_connectors"} ->
                IF Has(self, "nodes") THEN Ok(self, <<>>, CountOf(self, key))
                ELSE Ok(self, <<>>, "NA")
           [] OTHER -> Raise(self, <<>>, "AttributeError")

__getattr__(self, key) ==
    IF Has(self, "nodes") /\ Val(self, "nodes").ids = {} /\ key \in ZeroWhenEmpty
    THEN Ok(self, <<>>, 0)
    ELSE CASE key = "igraph" -> get_igraph(self)
           [] key = "nodes_geodesic_distance_matrix" -> Then(ReadIgraph(self), SetMatrix)
           [] key = "neuron_name" -> get_name(self, None)
           [] key = "annotations" -> get_annotations(self, None)
           [] key = "review_status" -> get_review(self, None)
           [] key \in Structural -> ReadStructural(self, key)
           [] key = "slabs" -> _get_slabs(self)
           [] key = "soma" -> _get_soma(self)
           [] key = "root" -> _get_root(self)
           [] key = "n_connectors" ->
                IF Has(self, "connectors")
                THEN Ok(self, <<>>, Cardinality(Val(self, "connectors")))
                ELSE Ok(self, <<>>, "NA")
           [] key \in Counts \ {"n_connectors"} ->
                IF Has(self, "nodes") THEN Ok(self, <<>>, CountOf(self, key))
                ELSE Ok(self, <<>>, "NA")
           [] OTHER -> Raise(self, <<>>, "AttributeError")

\* seeded fault: the cacheable attributes are resolved anew on every read
ReadAttrPastDict(self, key) ==
    IF key \in DOMAIN self /\ key \notin (Structural \cup Derived \cup Meta)
    THEN Ok(self, <<>>, self[key])
    ELSE __getattr__(self, key)

\* getattr(self, key): the instance __dict__ first, __getattr__ only on a miss
ReadAttr(self, key) ==
    IF key \in DOMAIN self /\ key \notin (Structural \cup Derived \cup Meta)
    THEN Ok(self, <<>>, self[key])
    ELSE IF key \in (Structural \cup Derived \cup Meta) /\ Has(self, key)
    THEN Ok(self, <<>>, Val(self, key))
    ELSE __getattr__(self, key)

\* x.neuron_name: __dict__, else __getattr__ -> get_name
ReadName(self) ==
    IF Has(self, "neuron_name") THEN Ok(self, <<>>, Val(self, "neuron_name"))
    ELSE get_name(self, None)

DefaultSomaRadius == 500
DefaultSomaTag == "soma"
DefaultColor == <<255, 255, 0>>

Digit == <<"0", "1", "2", "3", "4", "5", "6", "7", "8", "9">>
RECURSIVE IntToStr(_)
\* str(x) of a non-negative int
IntToStr(k) == IF k < 10 THEN Digit[k + 1] ELSE IntToStr(k \div 10) \o Digit[(k % 10) + 1]

IntKey(k) == [kind |-> "int", v |-> k]
StrKey(k) == [kind |-> "str", v |-> k]
Obj(n) == [kind |-> "neuron", n |-> n]

\* x.nodes with the 'type' column: `if 'type' not in x.nodes: classify_nodes(x)`
Classified(y) ==
    Ok(IF Val(y, "nodes").type = Unset THEN [y EXCEPT !.nodes = Some(Typed(Val(y, "nodes")))]
       ELSE y, <<>>, None)

\* the assignments of __init__ from a CatmaidNeuron y whose name reads as `name`
CopyFields(s1, y, name) ==
    [s1 EXCEPT !.nodes = y.nodes, !.connectors = y.connectors, !.tags = y.tags,
               !.neuron_name = Some(name),
               !.igraph = IF Has(y, "igraph") THEN y.igraph ELSE @,
               !.slabs = IF Has(y, "slabs") THEN y.slabs ELSE @,
               !._remote_instance = y._remote_instance,
               !._meta_data = y._meta_data,
               !.soma_detection_radius = y.soma_detection_radius,
               !.soma_detection_tag = y.soma_detection_tag]

\* rx is what reading x.nodes and x.neuron_name did to x; on a raise self keeps
\* what was assigned before the read
InitFrom(s1, rx) ==
    IF rx.exc # "" THEN [n |-> s1, calls |-> rx.calls, exc |-> rx.exc, val |-> rx.n]
    ELSE [n |-> CopyFields(s1, rx.n, rx.val), calls |-> rx.calls, exc |-> "", val |-> rx.n]

InitKey(s0, x) ==
    [n |-> [s0 EXCEPT !.skeleton_id = IF x.kind = "int" THEN IntToStr(x.v) ELSE x.v],
     calls |-> <<>>, exc |-> "", val |-> None]

Defaults(self, ri, meta_data) ==
    [self EXCEPT !._remote_instance = ri, !._meta_data = meta_data,
                 !.soma_detection_radius = DefaultSomaRadius,
                 !.soma_detection_tag = DefaultSomaTag,
                 !.color = DefaultColor]

\* CatmaidNeuron.__init__(self, x, remote_instance, meta_data); `ambient` is the
\* session registered process-wide (sys.modules / globals), None when there is none.
\* The result's val is x as the constructor leaves it.
__init__(self, x, remote_instance, meta_data, ambient) ==
    IF x.kind = "neuron"
    THEN InitFrom([Defaults(self, IF remote_instance = None THEN ambient ELSE remote_instance,
                            meta_data)
                     EXCEPT !.skeleton_id = x.n.skeleton_id, !.color = x.n.color],
                  Then(Then(ReadStructural(x.n, "nodes"), Classified), ReadName))
    ELSE InitKey(Defaults(self, IF remote_instance = None THEN ambient ELSE remote_instance,
                          meta_data), x)

\* CatmaidNeuron.copy(): the result's n is the copy, its val is self afterwards
copy(self) == __init__(NoDict, Obj(self), None, None, None)

\* the CatmaidNeuron that pymaid.get_neuron(skid, remote_instance) hands back
FetchedNeuron(skid, ri) ==
    LET row == pymaid_get_neuron(skid)
    IN [NoDict EXCEPT !.skeleton_id = skid, !._remote_instance = ri,
                      !.soma_detection_radius = DefaultSomaRadius,
                      !.soma_detection_tag = DefaultSomaTag, !.color = DefaultColor,
                      !.nodes = Some(Typed(row.nodes)), !.connectors = Some(row.connectors),
                      !.tags = Some(row.tags), !.neuron_name = Some(row.neuron_name)]

(***************************************************************************)
(* The morphology collaborators (pymaid.morpho).  Each reads the node      *)
(* table through the lazy accessor; `touch` says whether it also reads     *)
(* the lazily built graph before it transforms the tables.                 *)
(***************************************************************************)
Restrict(self, t) ==
    [self EXCEPT !.nodes = Some([t EXCEPT !.type = Val(self, "nodes").type]),
                 !.connectors = Some(Val(self, "connectors") \cap t.ids),
                 !.tags = Some([k \in DOMAIN Val(self, "tags") |-> Val(self, "tags")[k] \cap t.ids])]

Touch(s) == Then(ReadIgraph(s), LAMBDA s2 : Ok(s2, <<>>, None))

Resolve(self, touch) ==
    IF touch THEN Then(ReadStructural(self, "nodes"), Touch)
    ELSE Then(ReadStructural(self, "nodes"), LAMBDA s : Ok(s, <<>>, None))

reroot_neuron(self, new_root, touch) ==
    Then(Resolve(self, touch), LAMBDA s :
        IF new_root \notin Val(s, "nodes").ids THEN Raise(s, <<>>, "ValueError")
        ELSE Ok([s EXCEPT !.nodes = Some([Val(s, "nodes") EXCEPT !.root = new_root])],
                <<>>, None))

DistalIds(t, c) == {v \in t.ids : c \in PathSet(v, t.root)}

\* morpho.cut_neuron(self, node): val is <<dist, prox>>, two new neurons
cut_neuron(self, node, touch) ==
    Then(Resolve(self, touch), LAMBDA s :
        LET t == Val(s, "nodes")
            base == [s EXCEPT !.igraph = Unset, !.slabs = Unset,
                              !.nodes_geodesic_distance_matrix = Unset,
                              !.annotations = Unset, !.review_status = Unset]
        IN IF node \notin t.ids THEN Raise(s, <<>>, "ValueError")
           ELSE Ok(s, <<>>,
                   <<Restrict(base, [t EXCEPT !.root = node, !.ids = DistalIds(t, node)]),
                     Restrict(base, [t EXCEPT !.ids = (t.ids \ DistalIds(t, node)) \cup {node}])>>))

downsample_neuron(self, factor, preserve_cn_treenodes, touch) ==
    Then(Resolve(self, touch), LAMBDA s :
        LET t == Val(s, "nodes")
            slab == {v \in t.ids \ {t.root} : Cardinality(Children(t, v)) = 1}
            drop == IF factor <= 1 THEN {}
                    ELSE IF preserve_cn_treenodes THEN slab \ Val(s, "connectors")
                    ELSE slab
        IN Ok([s EXCEPT !.nodes = Some([t EXCEPT !.ids = t.ids \ drop])], <<>>, None))

longest_neurite(self, reroot_to_soma, touch) ==
    Then(Resolve(self, touch), LAMBDA s :
        LET t == Val(s, "nodes")
            far == CHOOSE v \in t.ids : \A w \in t.ids :
                      \/ Cardinality(PathSet(w, t.root)) < Cardinality(PathSet(v, t.root))
                      \/ Cardinality(PathSet(w, t.root)) = Cardinality(PathSet(v, t.root)) /\ v <= w
        IN IF t.ids = {} THEN Ok(s, <<>>, None)
           ELSE Ok(Restrict(s, [t EXCEPT !.ids = t.ids \cap PathSet(far, t.root)]), <<>>, None))

\* morpho.in_volume(self, v, inplace=True, mode): v is the set of nodes inside
in_volume(self, v, mode, touch) ==
    Then(Resolve(self, touch), LAMBDA s :
        LET t == Val(s, "nodes")
            keep == IF mode = "IN" THEN t.ids \cap v ELSE t.ids \ v
            root == IF keep = {} THEN 0
                    ELSE CHOOSE r \in keep : \A w \in keep :
                           Cardinality(PathSet(r, t.root)) <= Cardinality(PathSet(w, t.root))
        IN Ok(Restrict(s, [t EXCEPT !.ids = keep, !.root = root]), <<>>, None))

\* Strahler index of v, given the indices of its children
StrahlerOf(orders) ==
    IF DOMAIN orders = {} THEN 1
    ELSE LET m == CHOOSE k \in {orders[c] : c \in DOMAIN orders} :
                     \A c \in DOMAIN orders : orders[c] <= k
         IN IF Cardinality({c \in DOMAIN orders : orders[c] = m}) >= 2 THEN m + 1 ELSE m

RECURSIVE StrahlerIn(_, _)
StrahlerIn(t, v) == StrahlerOf([c \in Children(t, v) |-> StrahlerIn(t, c)])

\* the node table rerooted to the soma when there is exactly one candidate
SomaRooted(s) ==
    LET tags == Val(s, "tags")
        tn == IF s.soma_detection_tag \in DOMAIN tags
              THEN {v \in Val(s, "nodes").ids : Radius0[v] > s.soma_detection_radius
                                               /\ v \in tags[s.soma_detection_tag]}
              ELSE {}
    IN IF Cardinality(tn) = 1 THEN [Val(s, "nodes") EXCEPT !.root = CHOOSE v \in tn : TRUE]
       ELSE Val(s, "nodes")

StrahlerKept(t, to_prune) == {v \in t.ids : StrahlerIn(t, v) \notin to_prune}

\* seeded fault: morpho.prune_by_strahler leaves the temporary attributes in place
strahler_prune_keeping_caches(self, to_prune, touch) ==
    Then(Resolve(self, touch), LAMBDA s :
        Ok(Restrict(s, [SomaRooted(s) EXCEPT
                           !.ids = StrahlerKept(SomaRooted(s), to_prune),
                           !.root = IF StrahlerKept(SomaRooted(s), to_prune) = {}
                                    THEN 0 ELSE @]),
           <<>>, None))

\* morpho.prune_by_strahler(self, to_prune, inplace=True, reroot_soma=True), which
\* clears the temporary attributes itself
strahler_prune(self, to_prune, touch) ==
    Then(Resolve(self, touch), LAMBDA s :
        Ok(ClearCached(Restrict(s, [SomaRooted(s) EXCEPT
                                       !.ids = StrahlerKept(SomaRooted(s), to_prune),
                                       !.root = IF StrahlerKept(SomaRooted(s), to_prune) = {}
                                                THEN 0 ELSE @])),
           <<>>, None))

(***************************************************************************)
(* CatmaidNeuron: the structurally mutating methods.                       *)
(***************************************************************************)
ClearAfter(r) == Then(r, LAMBDA s : _clear_temp_attr(s))

RECURSIVE downsample(_, _, _, _, _)
\* inplace=False: n is self afterwards and val the neuron handed back
downsample(self, factor, preserve_cn_treenodes, inplace, touch) ==
    IF ~inplace
    THEN LET c == copy(self)
         IN IF c.exc # "" THEN [n |-> c.val, calls |-> c.calls, exc |-> c.exc, val |-> None]
            ELSE LET d == downsample(c.n, factor, TRUE, TRUE, touch)
                 IN [n |-> c.val, calls |-> c.calls \o d.calls, exc |-> d.exc, val |-> d.n]
    ELSE ClearAfter(downsample_neuron(self, factor, preserve_cn_treenodes, touch))

reroot(self, new_root, touch) == ClearAfter(reroot_neuron(self, new_root, touch))

Scalar(v) == [kind |-> "scalar", v |-> v]
List(v) == [kind |-> "list", v |-> v]
\* `if not isinstance(x, (list, np.ndarray)): x = [x]`
AsList1(x) == IF x.kind = "list" THEN x.v ELSE <<x.v>>

\* seeded fault: the re-initialisation starts from an instance without metadata
ReinitWithoutMeta(self, part) ==
    [__init__([self EXCEPT !.annotations = Unset, !.review_status = Unset], Obj(part),
              self._remote_instance, self._meta_data, None) EXCEPT !.val = None]

\* self.__init__(part, self._remote_instance, self._meta_data)
Reinit(self, part) ==
    LET i == __init__(self, Obj(part), self._remote_instance, self._meta_data, None)
    IN [n |-> i.n, calls |-> i.calls, exc |-> i.exc, val |-> None]

RECURSIVE DistalLoopLastFirst(_, _, _)
\* seeded fault: the cuts are applied from the last node of the list to the first
DistalLoopLastFirst(self, nodes, touch) ==
    IF nodes = <<>> THEN Ok(self, <<>>, None)
    ELSE LET c == cut_neuron(self, nodes[Len(nodes)], touch)
         IN IF c.exc # "" THEN c
            ELSE Then(Then(c, LAMBDA s : Reinit(s, c.val[2])),
                      LAMBDA s : DistalLoopLastFirst(s, SubSeq(nodes, 1, Len(nodes) - 1), touch))

RECURSIVE DistalLoop(_, _, _)
\* `for n in node: dist, prox = morpho.cut_neuron(self, n); self.__init__(prox, ...)`
DistalLoop(self, nodes, touch) ==
    IF nodes = <<>> THEN Ok(self, <<>>, None)
    ELSE LET c == cut_neuron(self, Head(nodes), touch)
         IN IF c.exc # "" THEN c
            ELSE Then(Then(c, LAMBDA s : Reinit(s, c.val[2])),
                      LAMBDA s : DistalLoop(s, Tail(nodes), touch))

prune_distal_to(self, node, touch) == ClearAfter(DistalLoop(self, AsList1(node), touch))

prune_proximal_to(self, node, touch) ==
    LET c == cut_neuron(self, node, touch)
    IN IF c.exc # "" THEN c
       ELSE ClearAfter(Then(c, LAMBDA s : Reinit(s, c.val[1])))

prune_by_longest_neurite(self, reroot_to_soma, touch) ==
    ClearAfter(longest_neurite(self, reroot_to_soma, touch))

prune_by_volume(self, v, mode, touch) == ClearAfter(in_volume(self, v, mode, touch))

\* CatmaidNeuron.prune_by_strahler(to_prune): no _clear_temp_attr of its own
prune_by_strahler(self, to_prune, touch) == strahler_prune(self, to_prune, touch)

reload(self, remote_instance) ==
    LET ri == IF remote_instance = None THEN self._remote_instance ELSE remote_instance
        call == Call("get_neuron", <<self.skeleton_id>>, ri)
    IN \* without any session only an error is logged and the fetch is still attempted
       IF ri = None THEN Raise(self, <<call>>, MissingSession)
       ELSE LET i == Reinit(self, FetchedNeuron(self.skeleton_id, ri))
            IN ClearAfter([i EXCEPT !.calls = <<call>> \o i.calls])

set_remote_instance(self, remote_instance) ==
    IF remote_instance = None THEN Raise(self, <<>>, "Exception: provide CatmaidInstance")
    ELSE Ok([self EXCEPT !._remote_instance = remote_instance], <<>>, None)

(***************************************************************************)
(* The single-neuron machine: object 1 is the neuron under test; a neuron  *)
(* that a call hands back is object 2 until the next call.                 *)
(***************************************************************************)
MaxCuts == 2

Sessions == {None, "rm"}
KeyKinds == {"int", "str"}
\* the key 123456 as an int or as a str
KeyOf(kind) == IF kind = "int" THEN IntKey(123456) ELSE StrKey("123456")
ReadKeys == Structural \cup Derived \cup Meta \cup Counts \cup {"soma", "root", "skeleton_id"}
RerootTargets == {4}
CutTargets == {3, 5}
ProximalTargets == {3}
Volumes == {{}, {1, 2, 3, 4}}
NodeLists == UNION {[1..k -> CutTargets] : k \in 0..MaxCuts}

NoList == [exists |-> FALSE]

Init ==
    /\ heap = <<>>
    /\ nl = NoList
    /\ op = [name |-> "none"]
    /\ calls = <<>>
    /\ ret = [exc |-> "", val |-> None]
    /\ pre = <<>>
    /\ prenl = NoList

\* a call on object 1 that hands back no new object
Step(o, r) ==
    /\ heap' = (1 :> r.n)
    /\ op' = o
    /\ calls' = r.calls
    /\ ret' = [exc |-> r.exc, val |-> r.val]
    /\ pre' = heap
    /\ UNCHANGED <<nl, prenl>>

\* a call on object 1 that hands back a new neuron (r.val) when it returns
StepNew(o, r) ==
    /\ heap' = IF r.exc = "" THEN (1 :> r.n) @@ (2 :> r.val) ELSE (1 :> r.n)
    /\ op' = o
    /\ calls' = r.calls
    /\ ret' = [exc |-> r.exc, val |-> IF r.exc = "" THEN 2 ELSE 0]
    /\ pre' = heap
    /\ UNCHANGED <<nl, prenl>>

Live == 1 \in DOMAIN heap /\ ~nl.exists

Construct ==
    /\ heap = <<>> /\ ~nl.exists
    /\ \E kind \in KeyKinds, ri \in Sessions, ambient \in Sessions :
          Step([name |-> "__init__", x |-> kind, remote_instance |-> ri, ambient |-> ambient],
               __init__(NoDict, KeyOf(kind), ri, None, ambient))

Read ==
    /\ Live
    /\ \E key \in ReadKeys : Step([name |-> "read", key |-> key], ReadAttr(heap[1], key))

\* reads of the structural and derived payload only
ReadPayload ==
    /\ Live
    /\ \E key \in {"nodes"} \cup Derived :
          Step([name |-> "read", key |-> key], ReadAttr(heap[1], key))

GetSkeleton ==
    /\ Live
    /\ Step([name |-> "get_skeleton"], get_skeleton(heap[1], None))

GetMeta ==
    /\ Live
    /\ \/ Step([name |-> "get_review"], get_review(heap[1], None))
       \/ Step([name |-> "get_annotations"], get_annotations(heap[1], None))
       \/ Step([name |-> "get_name"], get_name(heap[1], None))

SetRemoteInstance ==
    /\ Live
    /\ Step([name |-> "set_remote_instance"], set_remote_instance(heap[1], "rm"))

Reroot ==
    /\ Live
    /\ \E r \in RerootTargets, touch \in BOOLEAN :
          Step([name |-> "reroot", new_root |-> r], reroot(heap[1], r, touch))

PruneDistalTo ==
    /\ Live
    /\ \E touch \in BOOLEAN :
          \/ \E v \in CutTargets :
                Step([name |-> "prune_distal_to", node |-> <<v>>, scalar |-> TRUE],
                     prune_distal_to(heap[1], Scalar(v), touch))
          \/ \E q \in NodeLists :
                Step([name |-> "prune_distal_to", node |-> q, scalar |-> FALSE],
                     prune_distal_to(heap[1], List(q), touch))

PruneProximalTo ==
    /\ Live
    /\ \E node \in ProximalTargets, touch \in BOOLEAN :
          Step([name |-> "prune_proximal_to", node |-> node],
               prune_proximal_to(heap[1], node, touch))

Downsample ==
    /\ Live
    /\ \E preserve \in BOOLEAN, touch \in BOOLEAN :
          Step([name |-> "downsample", preserve_cn_treenodes |-> preserve, inplace |-> TRUE],
               downsample(heap[1], 5, preserve, TRUE, touch))

DownsampleCopy ==
    /\ Live
    /\ \E preserve \in BOOLEAN, touch \in BOOLEAN :
          StepNew([name |-> "downsample", preserve_cn_treenodes |-> preserve, inplace |-> FALSE],
                  downsample(heap[1], 5, preserve, FALSE, touch))

PruneByLongestNeurite ==
    /\ Live
    /\ \E touch \in BOOLEAN :
          Step([name |-> "prune_by_longest_neurite"],
               prune_by_longest_neurite(heap[1], FALSE, touch))

PruneByVolume ==
    /\ Live
    /\ \E v \in Volumes, touch \in BOOLEAN :
          Step([name |-> "prune_by_volume", v |-> v], prune_by_volume(heap[1], v, "IN", touch))

Reload ==
    /\ Live
    /\ Step([name |-> "reload"], reload(heap[1], None))

PruneByStrahler ==
    /\ Live
    /\ \E touch \in BOOLEAN :
          Step([name |-> "prune_by_strahler"], prune_by_strahler(heap[1], {1}, touch))

\* n.soma_detection_radius = r; n.soma_detection_tag = t
SetSomaDetection ==
    /\ Live
    /\ \E r \in {5, DefaultSomaRadius}, t \in {None, "soma", "ends", "axon"} :
          Step([name |-> "set_soma_detection", radius |-> r, tag |-> t],
               Ok([heap[1] EXCEPT !.soma_detection_radius = r, !.soma_detection_tag = t],
                  <<>>, None))

\* reads of the soma and of the counts
ReadSomaCounts ==
    /\ Live
    /\ \E key \in Counts \cup {"soma"} :
          Step([name |-> "read", key |-> key], ReadAttr(heap[1], key))

\* get_review / get_annotations only
GetReviewAnnotations ==
    /\ Live
    /\ \/ Step([name |-> "get_review"], get_review(heap[1], None))
       \/ Step([name |-> "get_annotations"], get_annotations(heap[1], None))

Copy ==
    /\ Live
    /\ LET c == copy(heap[1])
       IN StepNew([name |-> "copy"], [n |-> c.val, calls |-> c.calls, exc |-> c.exc, val |-> c.n])


(***************************************************************************)
(* CatmaidNeuronList.  A list is [neurons, ixobj, aliased, ...]: the       *)
(* object ids in self.neurons, and the list object that self.ix and        *)
(* self.skid were given in __init__: while `aliased`, that is the very     *)
(* list self.neurons is bound to; once self.neurons has been rebound,      *)
(* ixobj holds what the old list object holds.  A list method maps the     *)
(* heap and the list to [heap, nl, calls, exc, val].                       *)
(***************************************************************************)
MaxLen == 3
RecursionLimit == 3

SkidPool == <<16, 21999, 22132, 22277>>

Range(q) == {q[i] : i \in 1..Len(q)}
IxList(l) == IF l.aliased THEN l.neurons ELSE l.ixobj
LiveOids(l) == Range(l.neurons) \cup Range(IxList(l))

LOk(h, l, c, v) == [heap |-> h, nl |-> l, calls |-> c, exc |-> "", val |-> v]
LRaise(h, l, c, e) == [heap |-> h, nl |-> l, calls |-> c, exc |-> e, val |-> None]

RECURSIVE Flatten(_)
Flatten(qs) == IF qs = <<>> THEN <<>> ELSE Head(qs) \o Flatten(Tail(qs))

\* `for i, n in enumerate(oids): ...` where R[i] is what the loop body does to the
\* i-th neuron (the neurons of a list are distinct objects, so each body sees its
\* neuron as the heap h has it); the loop stops at the first raise
FirstRaise(R) ==
    IF \E i \in 1..Len(R) : R[i].exc # ""
    THEN CHOOSE i \in 1..Len(R) : R[i].exc # "" /\ \A j \in 1..(i - 1) : R[j].exc = ""
    ELSE 0
Ran(R) == IF FirstRaise(R) = 0 THEN Len(R) ELSE FirstRaise(R)
ForEach(h, l, oids, R) ==
    [heap |-> [o \in DOMAIN h |->
                  IF \E i \in 1..Ran(R) : oids[i] = o
                  THEN R[CHOOSE i \in 1..Ran(R) : oids[i] = o].n ELSE h[o]],
     nl |-> l,
     calls |-> Flatten([i \in 1..Ran(R) |-> R[i].calls]),
     exc |-> IF FirstRaise(R) = 0 THEN "" ELSE R[FirstRaise(R)].exc,
     val |-> IF FirstRaise(R) = 0 THEN [i \in 1..Len(R) |-> R[i].val] ELSE None]

\* the n smallest object ids not in `used`
RECURSIVE FreshOids(_, _)
FreshOids(used, n) ==
    IF n = 0 THEN <<>>
    ELSE LET o == CHOOSE k \in 1..(Cardinality(used) + 1) : k \notin used
         IN <<o>> \o FreshOids(used \cup {o}, n - 1)

\* CatmaidNeuronList.__init__(x, remote_instance, make_copy, _use_parallel), x a list
\* of skeleton ids: one CatmaidNeuron per key, then the two indexers on self.neurons
nl__init__keys(keys, remote_instance, _use_parallel, ambient) ==
    LOk([i \in 1..Len(keys) |->
            __init__(NoDict, IntKey(keys[i]),
                     IF remote_instance = None THEN ambient ELSE remote_instance,
                     None, ambient).n],
        [exists |-> TRUE, neurons |-> [i \in 1..Len(keys) |-> i], ixobj |-> <<>>,
         aliased |-> TRUE, _use_parallel |-> _use_parallel, copy_on_subset |-> FALSE],
        <<>>, None)

\* [n for n in oids if Test(n)]
SelectOids(h, oids, Test(_)) == SelectSeq(oids, LAMBDA o : Test(h[o]))

\* CatmaidNeuronList.__getattr__('_remote_instance')
nl_remote_instance(h, l) ==
    LET all == SelectOids(h, l.neurons, LAMBDA n : n._remote_instance # None)
        distinct == {h[o]._remote_instance : o \in Range(all)}
    IN IF Cardinality(distinct) > 1 THEN [exc |-> "", val |-> None]
       ELSE IF distinct = {} THEN [exc |-> "Exception: No remote_instance found", val |-> None]
       ELSE [exc |-> "", val |-> h[all[1]]._remote_instance]

SkidsOf(h, oids) == [i \in 1..Len(oids) |-> h[oids[i]].skeleton_id]

\* seeded fault: the fetched rows are assigned to every member, not to to_update
FetchIntoEveryMember(h, l, to_update, ri) ==
    IF ri.exc # "" THEN LRaise(h, l, <<>>, ri.exc)
    ELSE IF ri.val = None
    THEN LRaise(h, l, <<Call("get_neuron", SkidsOf(h, to_update), None)>>, MissingSession)
    ELSE LOk([o \in DOMAIN h |->
                 IF o \in Range(l.neurons)
                 THEN StoreSkeleton(h[o], pymaid_get_neuron(h[o].skeleton_id)) ELSE h[o]],
             l, <<Call("get_neuron", SkidsOf(h, to_update), ri.val)>>, None)

\* seeded fault: the members' old data is dropped before the fetch goes out
FetchIntoDroppingFirst(h, l, to_update, ri) ==
    IF ri.exc # "" THEN LRaise(h, l, <<>>, ri.exc)
    ELSE IF ri.val = None
    THEN LRaise([o \in DOMAIN h |->
                    IF o \in Range(to_update)
                    THEN [h[o] EXCEPT !.neuron_name = Unset, !.igraph = Unset, !.slabs = Unset,
                                      !.nodes_geodesic_distance_matrix = Unset]
                    ELSE h[o]],
                l, <<Call("get_neuron", SkidsOf(h, to_update), None)>>, MissingSession)
    ELSE LOk([o \in DOMAIN h |->
                 IF o \in Range(to_update)
                 THEN StoreSkeleton(h[o], pymaid_get_neuron(h[o].skeleton_id)) ELSE h[o]],
             l, <<Call("get_neuron", SkidsOf(h, to_update), ri.val)>>, None)

\* the fetch and the per-neuron assignments of get_skeletons, to_update not empty
FetchInto(h, l, to_update, ri) ==
    IF ri.exc # "" THEN LRaise(h, l, <<>>, ri.exc)
    ELSE IF ri.val = None
    THEN LRaise(h, l, <<Call("get_neuron", SkidsOf(h, to_update), None)>>, MissingSession)
    ELSE LOk([o \in DOMAIN h |->
                 IF o \in Range(to_update)
                 THEN StoreSkeleton(h[o], pymaid_get_neuron(h[o].skeleton_id)) ELSE h[o]],
             l, <<Call("get_neuron", SkidsOf(h, to_update), ri.val)>>, None)

\* seeded fault: skip_existing is ignored, every member is fetched
get_skeletons_ignoring_skip(h, l, skip_existing) ==
    IF l.neurons = <<>> THEN LOk(h, l, <<>>, None)
    ELSE LOk([o \in DOMAIN h |->
                 IF o \in Range(l.neurons)
                 THEN StoreSkeleton(h[o], pymaid_get_neuron(h[o].skeleton_id)) ELSE h[o]],
             l, <<Call("get_neuron", SkidsOf(h, l.neurons), nl_remote_instance(h, l).val)>>, None)

\* seeded fault: the list's session is looked up before to_update is examined
get_skeletons_session_first(h, l, skip_existing) ==
    IF nl_remote_instance(h, l).exc # "" THEN LRaise(h, l, <<>>, nl_remote_instance(h, l).exc)
    ELSE IF (IF skip_existing THEN SelectOids(h, l.neurons, LAMBDA n : ~Has(n, "nodes"))
             ELSE l.neurons) = <<>>
    THEN LOk(h, l, <<>>, None)
    ELSE FetchInto(h, l,
                   IF skip_existing THEN SelectOids(h, l.neurons, LAMBDA n : ~Has(n, "nodes"))
                   ELSE l.neurons,
                   nl_remote_instance(h, l))

get_skeletons(h, l, skip_existing) ==
    IF (IF skip_existing THEN SelectOids(h, l.neurons, LAMBDA n : ~Has(n, "nodes"))
        ELSE l.neurons) = <<>>
    THEN LOk(h, l, <<>>, None)
    ELSE FetchInto(h, l,
                   IF skip_existing THEN SelectOids(h, l.neurons, LAMBDA n : ~Has(n, "nodes"))
                   ELSE l.neurons,
                   nl_remote_instance(h, l))

nl_reload(h, l) == get_skeletons(h, l, FALSE)

VectorKeys == {"n_nodes", "n_connectors", "n_open_ends", "n_end_nodes", "cable_length", "tags",
               "igraph", "soma", "root", "slabs", "n_branch_nodes"}

\* np.array([getattr(n, key) for n in self.neurons]) on the heap r left behind
Gather(r, key) ==
    IF r.exc # "" THEN r
    ELSE [ForEach(r.heap, r.nl, r.nl.neurons,
                  [i \in 1..Len(r.nl.neurons) |-> ReadAttr(r.heap[r.nl.neurons[i]], key)])
            EXCEPT !.calls = r.calls \o @]

\* seeded fault: the members are read as they are, nothing is fetched first
nl__getattr__as_cached(h, l, key) ==
    IF key \in VectorKeys THEN Gather(LOk(h, l, <<>>, None), key)
    ELSE IF key = "skeleton_id" THEN LOk(h, l, <<>>, SkidsOf(h, l.neurons))
    ELSE LRaise(h, l, <<>>, "AttributeError")

\* CatmaidNeuronList.__getattr__(key) for the vectorized structural attributes
nl__getattr__(h, l, key) ==
    IF key \in VectorKeys THEN Gather(get_skeletons(h, l, TRUE), key)
    ELSE IF key = "skeleton_id" THEN LOk(h, l, <<>>, SkidsOf(h, l.neurons))
    ELSE LRaise(h, l, <<>>, "AttributeError")

nl_set_remote_instance(h, l, remote_instance) ==
    LOk([o \in DOMAIN h |->
            IF o \in Range(l.neurons) THEN [h[o] EXCEPT !._remote_instance = remote_instance]
            ELSE h[o]], l, <<>>, None)

\* what a worker process receives: a pickled copy of the neuron, whose session
\* is a new object, equal to no other (the note in __getattr__('_remote_instance'))
Pickle(n, i) ==
    [n EXCEPT !._remote_instance = IF @ = None THEN None ELSE "rm#" \o IntToStr(i)]

\* self.neurons = list(pool.imap(helper, combinations)): R[i] is what the helper
\* does to the i-th pickled neuron; a raise in a worker leaves self.neurons bound
\* as it was, otherwise it is bound to a new list of the neurons handed back
Rebind(h, l, news) ==
    LOk([o \in Range(IxList(l)) \cup Range(news) |-> h[o]],
        [l EXCEPT !.neurons = news, !.aliased = FALSE, !.ixobj = IxList(l)], <<>>, None)

Allocate(h, news, objs) ==
    [o \in DOMAIN h \cup Range(news) |->
        IF o \in Range(news) THEN objs[CHOOSE i \in 1..Len(news) : news[i] = o] ELSE h[o]]

\* orders in which n workers can finish, done[k] being the task finishing k-th:
\* as submitted, last first, and first last
InOrder(n) == [i \in 1..n |-> i]
LastFirst(n) == [i \in 1..n |-> n + 1 - i]
FirstLast(n) == [i \in 1..n |-> (i % n) + 1]
Orders(n) == {InOrder(n), LastFirst(n), FirstLast(n)}

\* what the pool receives, in order of arrival
Arrivals(R, done) == [k \in 1..Len(R) |-> [task |-> done[k], result |-> R[done[k]]]]

\* seeded fault: the results are taken as they arrive
imap_unordered(R, done) == [k \in 1..Len(R) |-> Arrivals(R, done)[k].result]

\* pool.imap(helper, combinations): the i-th result is the i-th task's, whenever
\* it arrived
imap(R, done) ==
    [i \in 1..Len(R) |->
        Arrivals(R, done)[CHOOSE k \in 1..Len(R) : Arrivals(R, done)[k].task = i].result]

Bound(h, l, res, cs) ==
    IF FirstRaise(res) # 0
    THEN LRaise(h, l, cs, res[FirstRaise(res)].exc)
    ELSE [Rebind(Allocate(h, FreshOids(DOMAIN h, Len(res)), [i \in 1..Len(res) |-> res[i].n]),
                 l, FreshOids(DOMAIN h, Len(res)))
            EXCEPT !.calls = cs]

\* seeded fault: the neurons handed back are bound although a worker raised
ParallelBindingAnyway(h, l, R, done) ==
    [Rebind(Allocate(h, FreshOids(DOMAIN h, Len(R)), [i \in 1..Len(R) |-> imap(R, done)[i].n]),
            l, FreshOids(DOMAIN h, Len(R)))
       EXCEPT !.calls = Flatten([k \in 1..Len(R) |-> R[done[k]].calls]),
              !.exc = IF FirstRaise(imap(R, done)) = 0 THEN ""
                      ELSE imap(R, done)[FirstRaise(imap(R, done))].exc]

Parallel(h, l, R, done) ==
    Bound(h, l, imap(R, done), Flatten([k \in 1..Len(R) |-> R[done[k]].calls]))

\* the member a bulk operation's i-th step works on: the neuron itself, or the
\* pickled copy handed to a worker
Member(h, l, i) == IF l._use_parallel THEN Pickle(h[l.neurons[i]], i) ELSE h[l.neurons[i]]

\* `if self._use_parallel: self.neurons = list(pool.imap(...)) else: for n in
\* self.neurons: n.method(...)`, R[i] being the method applied to Member(h, l, i)
Bulk(h, l, R, done) ==
    IF l._use_parallel THEN Parallel(h, l, R, done)
    ELSE [ForEach(h, l, l.neurons, R) EXCEPT !.val = None]

\* `if not isinstance(new_root, (list, np.ndarray)): new_root = [new_root] * len(self.neurons)`
Broadcast(l, new_root) ==
    IF new_root.kind = "list" THEN new_root.v ELSE [i \in 1..Len(l.neurons) |-> new_root.v]

\* seeded fault: every member is rerooted to the first entry
nl_reroot_first_entry(h, l, new_root, touch, done) ==
    IF Len(Broadcast(l, new_root)) < Len(l.neurons)
    THEN LRaise(h, l, <<>>, "IndexError")
    ELSE Bulk(h, l, [i \in 1..Len(l.neurons) |->
                        reroot(Member(h, l, i), Broadcast(l, new_root)[1], touch)], done)

\* CatmaidNeuronList.reroot(new_root): new_root[i] raises IndexError for a list
\* that is too short, in the parallel branch while the tasks are put together
nl_reroot(h, l, new_root, touch, done) ==
    IF l._use_parallel /\ Len(Broadcast(l, new_root)) < Len(l.neurons)
    THEN LRaise(h, l, <<>>, "IndexError")
    ELSE Bulk(h, l, [i \in 1..Len(l.neurons) |->
                        IF i > Len(Broadcast(l, new_root))
                        THEN Raise(Member(h, l, i), <<>>, "IndexError")
                        ELSE reroot(Member(h, l, i), Broadcast(l, new_root)[i], touch)], done)

\* CatmaidNeuronList.prune_distal_to(tag)
nl_prune_distal_to(h, l, tag, touch, done) ==
    Bulk(h, l, [i \in 1..Len(l.neurons) |-> prune_distal_to(Member(h, l, i), tag, touch)], done)

\* CatmaidNeuronList.prune_proximal_to(tag)
nl_prune_proximal_to(h, l, tag, touch, done) ==
    Bulk(h, l, [i \in 1..Len(l.neurons) |-> prune_proximal_to(Member(h, l, i), tag, touch)], done)

\* CatmaidNeuronList.prune_by_strahler(to_prune)
nl_prune_by_strahler(h, l, to_prune, touch, done) ==
    Bulk(h, l, [i \in 1..Len(l.neurons) |->
                   prune_by_strahler(Member(h, l, i), to_prune, touch)], done)

\* CatmaidNeuronList.prune_by_longest_neurite(reroot_to_soma)
nl_prune_by_longest_neurite(h, l, reroot_to_soma, touch, done) ==
    Bulk(h, l, [i \in 1..Len(l.neurons) |->
                   prune_by_longest_neurite(Member(h, l, i), reroot_to_soma, touch)], done)

\* CatmaidNeuronList.prune_by_volume(v, mode), v a Volume
nl_prune_by_volume(h, l, v, mode, touch, done) ==
    Bulk(h, l, [i \in 1..Len(l.neurons) |->
                   prune_by_volume(Member(h, l, i), v, mode, touch)], done)

\* CatmaidNeuronList.copy() == CatmaidNeuronList(self, make_copy=True): a new list
\* object (val) of new neurons, CatmaidNeuron(n, remote_instance) for each member n
\* in turn, which reads n.nodes and n.neuron_name on the member itself
Copies(h, l, ambient) ==
    [i \in 1..Len(l.neurons) |-> __init__(NoDict, Obj(h[l.neurons[i]]), ambient, None, ambient)]

nl_copy(h, l, ambient) ==
    LET R == Copies(h, l, ambient)
        olds == ForEach(h, l, l.neurons, [i \in 1..Len(R) |-> [R[i] EXCEPT !.n = R[i].val]])
        news == FreshOids(DOMAIN h, Len(R))
    IN IF olds.exc # "" THEN [olds EXCEPT !.val = None]
       ELSE [olds EXCEPT !.heap = Allocate(olds.heap, news, [i \in 1..Len(R) |-> R[i].n]),
                         !.val = [exists |-> TRUE, neurons |-> news, ixobj |-> <<>>,
                                  aliased |-> TRUE, _use_parallel |-> FALSE,
                                  copy_on_subset |-> FALSE]]

RECURSIVE nl_downsample(_, _, _, _, _, _, _, _)
\* CatmaidNeuronList.downsample(factor, preserve_cn_treenodes, inplace) at call
\* depth `depth`; the interpreter raises RecursionError at depth RecursionLimit.
\* With inplace=False the result's val is the list handed back.
nl_downsample(h, l, factor, preserve_cn_treenodes, inplace, touch, ambient, depth) ==
    IF depth >= RecursionLimit THEN LRaise(h, l, <<>>, "RecursionError")
    ELSE IF ~inplace
    THEN LET c == nl_copy(h, l, ambient)
         IN IF c.exc # "" THEN c
            ELSE LET d == nl_downsample(c.heap, c.val, factor, FALSE, FALSE, touch, ambient,
                                        depth + 1)
                 IN [heap |-> d.heap, nl |-> l, calls |-> c.calls \o d.calls, exc |-> d.exc,
                     val |-> IF d.exc = "" THEN c.val ELSE None]
    ELSE IF l._use_parallel
    THEN \* _downsample_helper names preserve_cn_treenodes, which it does not define
         Parallel(h, l, [i \in 1..Len(l.neurons) |->
                            Raise(Pickle(h[l.neurons[i]], i), <<>>, "NameError")],
                  InOrder(Len(l.neurons)))
    ELSE [ForEach(h, l, l.neurons,
                  [i \in 1..Len(l.neurons) |->
                      downsample(h[l.neurons[i]], factor, preserve_cn_treenodes, TRUE, touch)])
            EXCEPT !.val = None]

\* the position of a skeleton id among the ids in use: for these ids the order of
\* the strings (what DataFrame.sort_values compares) is the order of the pool
SkidRank(skid) == CHOOSE i \in 1..Len(SkidPool) : IntToStr(SkidPool[i]) = skid

RECURSIVE SortedBy(_, _)
\* sorted(oids, key=lambda x : new_order[x.skeleton_id])
SortedBy(h, oids) ==
    IF oids = {} THEN <<>>
    ELSE LET m == CHOOSE o \in oids :
                     \A q \in oids : SkidRank(h[o].skeleton_id) <= SkidRank(h[q].skeleton_id)
         IN <<m>> \o SortedBy(h, oids \ {m})

Reversed(q) == [i \in 1..Len(q) |-> q[Len(q) + 1 - i]]

\* CatmaidNeuronList.sort_values('skeleton_id', ascending)
sort_values(h, l, ascending) ==
    Rebind(h, l, IF ascending THEN SortedBy(h, Range(l.neurons))
                 ELSE Reversed(SortedBy(h, Range(l.neurons))))

\* CatmaidNeuronList.__getitem__(key), key an int
nl__getitem__(h, l, key) ==
    IF key + 1 \in 1..Len(l.neurons) THEN LOk(h, l, <<>>, l.neurons[key + 1])
    ELSE LRaise(h, l, <<>>, "IndexError")

\* _IXIndexer.__getitem__(key), key an int
ix__getitem__(h, l, key) ==
    IF key + 1 \in 1..Len(IxList(l)) THEN LOk(h, l, <<>>, IxList(l)[key + 1])
    ELSE LRaise(h, l, <<>>, "IndexError")

\* _SkidIndexer.__getitem__(skid), skid an int
skid__getitem__(h, l, skid) ==
    LET sel == SelectSeq(IxList(l), LAMBDA o : h[o].skeleton_id = IntToStr(skid))
    IN IF Len(sel) = 0 THEN LRaise(h, l, <<>>, "ValueError") ELSE LOk(h, l, <<>>, sel[1])

(***************************************************************************)
(* CatmaidNeuronList: subsetting.                                          *)
(***************************************************************************)
RECURSIVE Digits(_)
Digits(k) == IF k < 10 THEN <<Digit[k + 1]>> ELSE Digits(k \div 10) \o <<Digit[(k % 10) + 1]>>

\* the characters of the strings in use: the server's name, a word of it, and
\* the decimal strings
Chars(str) ==
    CASE str = ServerName ->
            <<"P", "N", " ", "g", "l", "o", "m", "e", "r", "u", "l", "u", "s">>
      [] str = "PN" -> <<"P", "N">>
      [] OTHER -> Digits(CHOOSE k \in Range(SkidPool) \cup {22} : IntToStr(k) = str)

\* `a in b` for two str
StrIn(a, b) ==
    \E i \in 1..(Len(Chars(b)) - Len(Chars(a)) + 1) :
       SubSeq(Chars(b), i, i + Len(Chars(a)) - 1) = Chars(a)

NewList(oids) ==
    [exists |-> TRUE, neurons |-> oids, ixobj |-> <<>>, aliased |-> TRUE,
     _use_parallel |-> FALSE, copy_on_subset |-> FALSE]

\* CatmaidNeuronList(subset, make_copy=make_copy) for a list of members of l: the
\* members themselves, or CatmaidNeuron(n, remote_instance=remote_instance) of
\* each in turn; val is the new list
Subset(h, l, oids, make_copy, ambient) ==
    IF ~make_copy THEN LOk(h, l, <<>>, NewList(oids))
    ELSE LET R == [i \in 1..Len(oids) |->
                      __init__(NoDict, Obj(h[oids[i]]), ambient, None, ambient)]
             olds == ForEach(h, l, oids, [i \in 1..Len(R) |-> [R[i] EXCEPT !.n = R[i].val]])
             news == FreshOids(DOMAIN h, Len(R))
         IN IF olds.exc # "" THEN [olds EXCEPT !.val = None]
            ELSE [olds EXCEPT !.heap = Allocate(olds.heap, news, [i \in 1..Len(R) |-> R[i].n]),
                              !.val = NewList(news)]

\* r, then the list of the members picked by r.val out of l.neurons
ThenSubset(r, l, make_copy, ambient) ==
    IF r.exc # "" THEN [r EXCEPT !.val = None]
    ELSE LET picked == [i \in 1..Len(l.neurons) |-> r.val[i]]
             sub == Subset(r.heap, l,
                           SelectSeq(l.neurons,
                                     LAMBDA o : picked[CHOOSE i \in 1..Len(l.neurons) :
                                                           l.neurons[i] = o]),
                           make_copy, ambient)
         IN [sub EXCEPT !.calls = r.calls \o sub.calls]

\* CatmaidNeuronList.__getitem__(key), key a str not starting with 'annotation:':
\* `[n for n in self.neurons if key in n.neuron_name or key in n.skeleton_id]`;
\* a neuron_name of None makes `key in` raise TypeError
nl__getitem__str(h, l, key, ambient) ==
    ThenSubset(ForEach(h, l, l.neurons,
                       [i \in 1..Len(l.neurons) |->
                           LET r == ReadName(h[l.neurons[i]])
                           IN IF r.exc # "" THEN r
                              ELSE IF r.val = None THEN Raise(r.n, r.calls, "TypeError")
                              ELSE [r EXCEPT !.val = StrIn(key, r.val)
                                                      \/ StrIn(key, r.n.skeleton_id)]]),
               l, l.copy_on_subset, ambient)

\* CatmaidNeuronList.__getitem__(slice(start, stop)), 0 <= start, stop
nl__getitem__slice(h, l, start, stop, ambient) ==
    Subset(h, l, SubSeq(l.neurons, start + 1, IF stop > Len(l.neurons) THEN Len(l.neurons)
                                                ELSE stop),
           l.copy_on_subset, ambient)

\* a CatmaidNeuron handed in as an argument: the object and its skeleton id
Ref(oid, skid) == [kind |-> "neuron", oid |-> oid, skeleton_id |-> skid]

\* CatmaidNeuronList.__sub__(to_sub): for a str or an int
\* `n.skeleton_id != to_sub and n.neuron_name != to_sub`, a str never being equal
\* to an int; for a CatmaidNeuron `n != to_sub`, which compares the objects
nl__sub__(h, l, to_sub, ambient) ==
    ThenSubset(IF to_sub.kind = "neuron"
               THEN LOk(h, l, <<>>, [i \in 1..Len(l.neurons) |-> l.neurons[i] # to_sub.oid])
               ELSE ForEach(h, l, l.neurons,
                            [i \in 1..Len(l.neurons) |->
                                IF to_sub.kind = "str" /\ h[l.neurons[i]].skeleton_id = to_sub.v
                                THEN Ok(h[l.neurons[i]], <<>>, FALSE)
                                ELSE LET r == ReadName(h[l.neurons[i]])
                                     IN [r EXCEPT !.val = ~(to_sub.kind = "str"
                                                            /\ r.val = to_sub.v)]]),
               l, TRUE, ambient)

\* CatmaidNeuronList.__getattr__('annotations'): one pymaid.get_annotations call
\* for the members without annotations
nl_annotations(h, l) ==
    LET missing == SelectOids(h, l.neurons, LAMBDA n : ~Has(n, "annotations"))
        ri == nl_remote_instance(h, l)
        got == [o \in DOMAIN h |->
                   IF o \in Range(missing)
                   THEN [h[o] EXCEPT !.annotations = Some(ServerAnnotationsOf(h[o].skeleton_id))]
                   ELSE h[o]]
    IN IF missing = <<>>
       THEN LOk(h, l, <<>>, [i \in 1..Len(l.neurons) |-> Val(h[l.neurons[i]], "annotations")])
       ELSE IF ri.exc # "" THEN LRaise(h, l, <<>>, ri.exc)
       ELSE LOk(got, l, <<Call("get_annotations", SkidsOf(h, missing), ri.val)>>,
                [i \in 1..Len(l.neurons) |-> Val(got[l.neurons[i]], "annotations")])

\* the skeleton ids of the members that lack `key`, in list order
Lacking(h, l, key) == SelectSeq(l.neurons, LAMBDA o : ~Has(h[o], key))

\* pymaid.get_review(...).set_index('skeleton_id'): one row per skeleton id; the
\* labels `in` looks through are those of the columns
ReviewColumns == {"percent_reviewed"}

\* CatmaidNeuronList.get_review(skip_existing)
nl_get_review(h, l, skip_existing) ==
    LET to_update == IF skip_existing THEN Lacking(h, l, "review_status") ELSE l.neurons
        ri == nl_remote_instance(h, l)
    IN IF to_update = <<>> THEN LOk(h, l, <<>>, None)
       ELSE IF ri.exc # "" THEN LRaise(h, l, <<>>, ri.exc)
       ELSE IF ri.val = None
       THEN LRaise(h, l, <<Call("get_review", SkidsOf(h, to_update), None)>>, MissingSession)
       ELSE LOk([o \in DOMAIN h |->
                    IF o \in Range(l.neurons) /\ h[o].skeleton_id \in ReviewColumns
                    THEN [h[o] EXCEPT !.review_status = Some(ServerReview)] ELSE h[o]],
                l, <<Call("get_review", SkidsOf(h, to_update), ri.val)>>, None)

\* CatmaidNeuronList.get_names(skip_existing): the call carries self.skeleton_id
nl_get_names(h, l, skip_existing) ==
    LET to_update == IF skip_existing THEN Lacking(h, l, "neuron_name") ELSE l.neurons
        ri == nl_remote_instance(h, l)
    IN IF to_update = <<>> THEN LOk(h, l, <<>>, None)
       ELSE IF ri.exc # "" THEN LRaise(h, l, <<>>, ri.exc)
       ELSE IF ri.val = None
       THEN LRaise(h, l, <<Call("get_names", SkidsOf(h, l.neurons), None)>>, MissingSession)
       ELSE LOk([o \in DOMAIN h |->
                    IF o \in Range(l.neurons)
                    THEN [h[o] EXCEPT !.neuron_name = Some(ServerName)] ELSE h[o]],
                l, <<Call("get_names", SkidsOf(h, l.neurons), ri.val)>>, None)

\* CatmaidNeuronList.__getattr__(key) for neuron_name, review_status, annotations
nl__getattr__meta(h, l, key) ==
    CASE key = "neuron_name" -> Gather(nl_get_names(h, l, TRUE), key)
      [] key = "review_status" -> Gather(nl_get_review(h, l, TRUE), key)
      [] key = "annotations" -> nl_annotations(h, l)

\* `True in [a in x for a in an]` / `False not in [a in x for a in an]`
Selected(an, x, intersect) ==
    IF intersect THEN \A i \in 1..Len(an) : an[i] \in Range(x)
    ELSE \E i \in 1..Len(an) : an[i] \in Range(x)

\* CatmaidNeuronList.has_annotation(x, intersect), x a list
has_annotation(h, l, x, intersect, ambient) ==
    LET a == nl_annotations(h, l)
    IN IF a.exc # "" THEN a
       ELSE IF \A i \in 1..Len(l.neurons) : ~Selected(a.val[i], x, intersect)
       THEN LRaise(a.heap, l, a.calls, "ValueError")
       ELSE ThenSubset([a EXCEPT !.val = [i \in 1..Len(l.neurons) |->
                                            Selected(a.val[i], x, intersect)]],
                       l, l.copy_on_subset, ambient)

\* int(str) succeeds: decimal digits only
Numeric(str) == \A i \in 1..Len(Chars(str)) : Chars(str)[i] \in Range(Digit)

Slice(start, stop) == [kind |-> "slice", start |-> start, stop |-> stop]

\* _IXIndexer.__getitem__(key) for an int, a slice(start, stop) with
\* 0 <= start, stop, or a str
ix__getitem__key(h, l, key) ==
    IF key.kind = "int" THEN ix__getitem__(h, l, key.v)
    ELSE IF key.kind = "slice"
    THEN LOk(h, l, <<>>, SubSeq(IxList(l), key.start + 1,
                                IF key.stop > Len(IxList(l)) THEN Len(IxList(l)) ELSE key.stop))
    ELSE LRaise(h, l, <<>>, "Exception: Unable to index non-integers.")

\* _SkidIndexer.__getitem__(skid) for an int or a str
skid__getitem__key(h, l, skid) ==
    IF skid.kind = "int" THEN skid__getitem__(h, l, skid.v)
    ELSE IF ~Numeric(skid.v) THEN LRaise(h, l, <<>>, "Exception: Can only index skeleton IDs")
    ELSE LET sel == SelectSeq(IxList(l), LAMBDA o : h[o].skeleton_id = skid.v)
         IN IF Len(sel) = 0 THEN LRaise(h, l, <<>>, "ValueError") ELSE LOk(h, l, <<>>, sel[1])

(***************************************************************************)
(* CatmaidNeuronList: the selection file.  A str of the file is the        *)
(* sequence of its characters; json.dump followed by json.load hands back  *)
(* the list of dicts with the same ints and strs.                          *)
(***************************************************************************)
HexDigit == <<"0", "1", "2", "3", "4", "5", "6", "7", "8", "9", "a", "b", "c", "d", "e", "f">>

RECURSIVE HexDigits(_)
\* "{:x}".format(c)
HexDigits(c) ==
    IF c < 16 THEN <<HexDigit[c + 1]>> ELSE HexDigits(c \div 16) \o <<HexDigit[(c % 16) + 1]>>

\* "{:02x}".format(c): at least two characters, padded with '0'
Format02x(c) == IF c < 16 THEN <<"0">> \o HexDigits(c) ELSE HexDigits(c)

\* "#{:02x}{:02x}{:02x}".format(color[0], color[1], color[2])
FormatColor(color) == <<"#">> \o Format02x(color[1]) \o Format02x(color[2]) \o Format02x(color[3])

RECURSIVE ParseInt(_, _)
\* int(str, base) for a str of digits of that base
ParseInt(chars, base) ==
    IF chars = <<>> THEN 0
    ELSE ParseInt(SubSeq(chars, 1, Len(chars) - 1), base) * base
         + (CHOOSE d \in 0..(base - 1) : HexDigit[d + 1] = chars[Len(chars)])

RECURSIVE LStrip(_, _)
\* str.lstrip(ch)
LStrip(chars, ch) ==
    IF chars # <<>> /\ Head(chars) = ch THEN LStrip(Tail(chars), ch) ELSE chars

\* tuple(int(e['color'].lstrip('#')[i:i+2], 16) for i in (0, 2, 4))
ParseColor(chars) ==
    [k \in 1..3 |-> ParseInt(SubSeq(LStrip(chars, "#"), 2 * k - 1, 2 * k), 16)]

\* CatmaidNeuronList.to_json: the data handed to json.dump
to_json(h, l) ==
    LOk(h, l, <<>>,
        [i \in 1..Len(l.neurons) |->
            [skeleton_id |-> ParseInt(Chars(h[l.neurons[i]].skeleton_id), 10),
             color |-> FormatColor(h[l.neurons[i]].color),
             opacity |-> 1]])

\* a call that hands back a list: val holds the list's members as they are when
\* the call returns
Handed(h, l) ==
    [neurons |-> l.neurons, members |-> [i \in 1..Len(l.neurons) |-> h[l.neurons[i]]]]

RECURSIVE AddColors(_, _)
\* `for e in data: nl.skid[e['skeleton_id']].color = ...` on the list r holds
AddColors(r, data) ==
    IF data = <<>> \/ r.exc # "" THEN r
    ELSE LET n == skid__getitem__(r.heap, r.nl, Head(data).skeleton_id)
         IN IF n.exc # "" THEN LRaise(r.heap, r.nl, r.calls, n.exc)
            ELSE AddColors([r EXCEPT !.heap[n.val].color = ParseColor(Head(data).color)],
                           Tail(data))

\* CatmaidNeuronList.from_json: val is the new list, on a heap of its own
from_json(data) ==
    LET r == AddColors(nl__init__keys([i \in 1..Len(data) |-> data[i].skeleton_id],
                                      None, FALSE, None), data)
    IN IF r.exc # "" THEN [exc |-> r.exc, val |-> None]
       ELSE [exc |-> "", val |-> Handed(r.heap, r.nl)]

(***************************************************************************)
(* The list machine.                                                       *)
(***************************************************************************)
KeyLists == {SubSeq(SkidPool, 1, k) : k \in 0..MaxLen}
ListReadKeys == {"n_nodes", "cable_length", "soma", "igraph"}
Positions == 0..(MaxLen - 1)
RootTargets == {3, 4}
BulkTags == {3}
StrKeys == {"16", "22", "PN"}
AnnotationLists == {<<"uPN right">>, <<"glomerulus DA1">>, <<"uPN right", "glomerulus DA1">>}
BulkVolumes == {{1, 2, 3, 4}}
\* lists of roots for n members: one entry short or one entry each, the entries
\* taking two values in turn
RootLists(n) ==
    {[i \in 1..k |-> IF i % 2 = 1 THEN a ELSE b] :
        k \in {m \in {n - 1, n} : m >= 0}, a \in RootTargets, b \in RootTargets}

LStep(o, r) ==
    /\ heap' = [x \in LiveOids(r.nl) |-> r.heap[x]]
    /\ nl' = r.nl
    /\ op' = o
    /\ calls' = r.calls
    /\ ret' = [exc |-> r.exc, val |-> r.val]
    /\ pre' = heap
    /\ prenl' = nl

ConstructList ==
    /\ heap = <<>> /\ ~nl.exists
    /\ \E keys \in KeyLists, ri \in Sessions :
          LStep([name |-> "nl.__init__", x |-> keys, remote_instance |-> ri],
                nl__init__keys(keys, ri, FALSE, None))

ConstructParallel ==
    /\ heap = <<>> /\ ~nl.exists
    /\ \E keys \in KeyLists, par \in BOOLEAN :
          LStep([name |-> "nl.__init__", x |-> keys, remote_instance |-> "rm"],
                nl__init__keys(keys, "rm", par, None))

LStepList(o, r) == LStep(o, IF r.exc = "" THEN [r EXCEPT !.val = Handed(r.heap, r.val)] ELSE r)

\* nl.copy_on_subset = flag
SetCopyOnSubset ==
    /\ nl.exists
    /\ \E flag \in BOOLEAN :
          LStep([name |-> "nl.copy_on_subset", flag |-> flag],
                LOk(heap, [nl EXCEPT !.copy_on_subset = flag], <<>>, None))

ItemStr ==
    /\ nl.exists
    /\ \E key \in StrKeys :
          LStepList([name |-> "nl.__getitem__", kind |-> "str", key |-> key],
                    nl__getitem__str(heap, nl, key, None))

ItemSlice ==
    /\ nl.exists
    /\ \E start \in 0..1, stop \in {2, MaxLen} :
          LStepList([name |-> "nl.__getitem__", kind |-> "slice", start |-> start, stop |-> stop],
                    nl__getitem__slice(heap, nl, start, stop, None))

\* nl - to_sub for a skeleton id as str or int, a member of the list, or another
\* neuron object with the skeleton id of the first member
Sub ==
    /\ nl.exists
    /\ \/ LStepList([name |-> "nl.__sub__", to_sub |-> StrKey(IntToStr(SkidPool[1]))],
                     nl__sub__(heap, nl, StrKey(IntToStr(SkidPool[1])), None))
       \/ LStepList([name |-> "nl.__sub__", to_sub |-> IntKey(SkidPool[1])],
                     nl__sub__(heap, nl, IntKey(SkidPool[1]), None))
       \/ \E to_sub \in {Ref(nl.neurons[i], heap[nl.neurons[i]].skeleton_id) :
                             i \in 1..Len(nl.neurons)}
                         \cup {Ref(0, IntToStr(SkidPool[1]))} :
             LStepList([name |-> "nl.__sub__", to_sub |-> to_sub],
                       nl__sub__(heap, nl, to_sub, None))

HasAnnotation ==
    /\ nl.exists
    /\ \E x \in AnnotationLists, intersect \in BOOLEAN :
          LStepList([name |-> "nl.has_annotation", x |-> x, intersect |-> intersect],
                    has_annotation(heap, nl, x, intersect, None))

\* a list whose bulk operations go to a pool of workers
ConstructPool ==
    /\ heap = <<>> /\ ~nl.exists
    /\ \E keys \in KeyLists :
          LStep([name |-> "nl.__init__", x |-> keys, remote_instance |-> "rm"],
                nl__init__keys(keys, "rm", TRUE, None))

ListRead ==
    /\ nl.exists
    /\ \E key \in ListReadKeys :
          LStep([name |-> "nl.read", key |-> key], nl__getattr__(heap, nl, key))

GetSkeletons ==
    /\ nl.exists
    /\ \E skip_existing \in BOOLEAN :
          LStep([name |-> "nl.get_skeletons", skip_existing |-> skip_existing],
                get_skeletons(heap, nl, skip_existing))

ListReload ==
    /\ nl.exists
    /\ LStep([name |-> "nl.reload"], nl_reload(heap, nl))

\* getattr(nl[i], key): a read on one member
MemberRead ==
    /\ nl.exists
    /\ \E i \in 1..Len(nl.neurons), key \in {"nodes", "igraph"} :
          LStep([name |-> "member.read", i |-> i, key |-> key],
                [ForEach(heap, nl, <<nl.neurons[i]>>, <<ReadAttr(heap[nl.neurons[i]], key)>>)
                    EXCEPT !.val = None])

ListSetRemoteInstance ==
    /\ nl.exists
    /\ LStep([name |-> "nl.set_remote_instance", remote_instance |-> "rm"],
             nl_set_remote_instance(heap, nl, "rm"))

\* the completion orders a call on the list can meet
Finishes == IF nl._use_parallel THEN Orders(Len(nl.neurons)) ELSE {InOrder(Len(nl.neurons))}

ListReroot ==
    /\ nl.exists
    /\ \E r \in RerootTargets, touch \in BOOLEAN, done \in Finishes :
          LStep([name |-> "nl.reroot", new_root |-> Broadcast(nl, Scalar(r)), done |-> done],
                nl_reroot(heap, nl, Scalar(r), touch, done))

ListRerootEach ==
    /\ nl.exists
    /\ \E q \in RootLists(Len(nl.neurons)), touch \in BOOLEAN, done \in Finishes :
          LStep([name |-> "nl.reroot", new_root |-> q, done |-> done],
                nl_reroot(heap, nl, List(q), touch, done))

ListPruneDistalTo ==
    /\ nl.exists
    /\ \E v \in BulkTags, touch \in BOOLEAN, done \in Finishes :
          LStep([name |-> "nl.prune_distal_to", tag |-> v, done |-> done],
                nl_prune_distal_to(heap, nl, Scalar(v), touch, done))

ListPruneProximalTo ==
    /\ nl.exists
    /\ \E v \in BulkTags, touch \in BOOLEAN, done \in Finishes :
          LStep([name |-> "nl.prune_proximal_to", tag |-> v, done |-> done],
                nl_prune_proximal_to(heap, nl, v, touch, done))

ListPruneByStrahler ==
    /\ nl.exists
    /\ \E touch \in BOOLEAN, done \in Finishes :
          LStep([name |-> "nl.prune_by_strahler", done |-> done],
                nl_prune_by_strahler(heap, nl, {1}, touch, done))

ListPruneByLongestNeurite ==
    /\ nl.exists
    /\ \E touch \in BOOLEAN, done \in Finishes :
          LStep([name |-> "nl.prune_by_longest_neurite", done |-> done],
                nl_prune_by_longest_neurite(heap, nl, FALSE, touch, done))

ListPruneByVolume ==
    /\ nl.exists
    /\ \E v \in BulkVolumes, touch \in BOOLEAN, done \in Finishes :
          LStep([name |-> "nl.prune_by_volume", v |-> v, done |-> done],
                nl_prune_by_volume(heap, nl, v, "IN", touch, done))

ListDownsampleCopy ==
    /\ nl.exists
    /\ \E touch \in BOOLEAN :
          LStep([name |-> "nl.downsample", inplace |-> FALSE],
                [nl_downsample(heap, nl, 2, FALSE, FALSE, touch, None, 0) EXCEPT !.val = None])

\* nl.downsample(factor, preserve_cn_treenodes), in place
ListDownsample ==
    /\ nl.exists
    /\ \E preserve \in BOOLEAN, touch \in BOOLEAN :
          LStep([name |-> "nl.downsample", inplace |-> TRUE, factor |-> 5,
                 preserve_cn_treenodes |-> preserve, touch |-> touch],
                nl_downsample(heap, nl, 5, preserve, TRUE, touch, None, 0))

MetaKeys == {"neuron_name", "review_status", "annotations"}

\* nl.neuron_name / nl.review_status / nl.annotations
ListReadMeta ==
    /\ nl.exists
    /\ \E key \in MetaKeys :
          LStep([name |-> "nl.read", key |-> key], nl__getattr__meta(heap, nl, key))

\* nl[i].neuron_name / nl[i].review_status / nl[i].annotations
MemberReadMeta ==
    /\ nl.exists
    /\ \E i \in 1..Len(nl.neurons), key \in MetaKeys :
          LStep([name |-> "member.read", i |-> i, key |-> key],
                [ForEach(heap, nl, <<nl.neurons[i]>>, <<ReadAttr(heap[nl.neurons[i]], key)>>)
                    EXCEPT !.val = None])

\* nl[0].neuron_name = 'renamed'
RenameMember ==
    /\ nl.exists /\ nl.neurons # <<>>
    /\ LStep([name |-> "member.rename", i |-> 1],
             LOk([heap EXCEPT ![nl.neurons[1]].neuron_name = Some("renamed")], nl, <<>>, None))

ColorPool == {<<255, 0, 0>>, <<0, 10, 171>>}
KeySeqs == UNION {[1..k -> {16, 21999}] : k \in 0..MaxLen}

\* CatmaidNeuronList(keys), a skeleton id possibly given more than once
ConstructKeys ==
    /\ heap = <<>> /\ ~nl.exists
    /\ \E keys \in KeySeqs :
          LStep([name |-> "nl.__init__", x |-> keys, remote_instance |-> "rm"],
                nl__init__keys(keys, "rm", FALSE, None))

\* nl[i].color = color
SetColor ==
    /\ nl.exists
    /\ \E i \in 1..Len(nl.neurons), color \in ColorPool :
          LStep([name |-> "member.color", i |-> i, color |-> color],
                LOk([heap EXCEPT ![nl.neurons[i]].color = color], nl, <<>>, None))

\* nl.to_json(fname): val is the content of the file
ToJson ==
    /\ nl.exists
    /\ LStep([name |-> "nl.to_json"], to_json(heap, nl))

\* CatmaidNeuronList.from_json(fname) of the file just written
FromJson ==
    /\ nl.exists /\ op.name = "nl.to_json" /\ ret.exc = ""
    /\ LStep([name |-> "from_json", data |-> ret.val],
             [heap |-> heap, nl |-> nl, calls |-> <<>>,
              exc |-> from_json(ret.val).exc, val |-> from_json(ret.val).val])

SortValues ==
    /\ nl.exists
    /\ \E ascending \in BOOLEAN :
          LStep([name |-> "nl.sort_values", ascending |-> ascending],
                sort_values(heap, nl, ascending))

ItemRead ==
    /\ nl.exists
    /\ \E i \in Positions :
          LStep([name |-> "nl.__getitem__", key |-> i], nl__getitem__(heap, nl, i))

IxRead ==
    /\ nl.exists
    /\ \/ \E i \in Positions :
             LStep([name |-> "nl.ix", key |-> IntKey(i)], ix__getitem__key(heap, nl, IntKey(i)))
       \/ \E start \in 0..1, stop \in {2, MaxLen} :
             LStep([name |-> "nl.ix", key |-> Slice(start, stop)],
                   ix__getitem__key(heap, nl, Slice(start, stop)))
       \/ LStep([name |-> "nl.ix", key |-> StrKey("16")],
                 ix__getitem__key(heap, nl, StrKey("16")))

SkidRead ==
    /\ nl.exists
    /\ \/ \E i \in 1..MaxLen :
             LStep([name |-> "nl.skid", key |-> IntKey(SkidPool[i])],
                   skid__getitem__key(heap, nl, IntKey(SkidPool[i])))
       \/ \E k \in {"16", "PN"} :
             LStep([name |-> "nl.skid", key |-> StrKey(k)],
                   skid__getitem__key(heap, nl, StrKey(k)))

\* lazy resolution: every read, the forced fetches, copies, one structural edit
Next ==
    \/ Construct
    \/ Read
    \/ GetSkeleton
    \/ GetMeta
    \/ SetRemoteInstance
    \/ Reroot
    \/ DownsampleCopy
    \/ Reload
    \/ Copy

Spec == Init /\ [][Next]_vars

\* structural mutation: every mutating method against the cached payload
NextMutate ==
    \/ Construct
    \/ ReadPayload
    \/ Reroot
    \/ PruneDistalTo
    \/ PruneProximalTo
    \/ Downsample
    \/ PruneByLongestNeurite
    \/ PruneByVolume
    \/ Reload

SpecMutate == Init /\ [][NextMutate]_vars

\* one neuron: metadata fetched, then the mutating calls
NextFrame ==
    \/ Construct
    \/ GetReviewAnnotations
    \/ Reroot
    \/ PruneDistalTo
    \/ PruneProximalTo
    \/ Downsample
    \/ PruneByStrahler
    \/ PruneByLongestNeurite
    \/ PruneByVolume

SpecFrame == Init /\ [][NextFrame]_vars

\* one neuron: soma detection and counts, on full, pruned and empty node tables
NextSoma ==
    \/ Construct
    \/ SetSomaDetection
    \/ PruneByVolume
    \/ ReadSomaCounts

SpecSoma == Init /\ [][NextSoma]_vars

\* lists: fetching for some or all members
NextList ==
    \/ ConstructList
    \/ ListRead
    \/ GetSkeletons
    \/ ListReload
    \/ MemberRead
    \/ ListSetRemoteInstance
    \/ ListReroot
    \/ ListDownsampleCopy

SpecList == Init /\ [][NextList]_vars

\* lists: the members' order and identity, and the two indexers
NextIndex ==
    \/ ConstructParallel
    \/ SortValues
    \/ ListReroot
    \/ ItemRead
    \/ IxRead
    \/ SkidRead

SpecIndex == Init /\ [][NextIndex]_vars

\* lists: the operations applied to every member, in turn or by a pool of workers
NextBulk ==
    \/ ConstructPool
    \/ ListReroot
    \/ ListPruneDistalTo
    \/ ListPruneProximalTo
    \/ ListPruneByStrahler
    \/ ListPruneByLongestNeurite
    \/ ListPruneByVolume

SpecBulk == Init /\ [][NextBulk]_vars

\* lists with and without workers: downsampling in place
NextDownsample ==
    \/ ConstructParallel
    \/ ListRead
    \/ ListReroot
    \/ ListDownsample

SpecDownsample == Init /\ [][NextDownsample]_vars

\* lists: names, review status and annotations, fetched by member and in bulk
NextMeta ==
    \/ ConstructList
    \/ MemberReadMeta
    \/ RenameMember
    \/ ListReadMeta

SpecMeta == Init /\ [][NextMeta]_vars

\* lists: colors, written to a selection file and read back
NextJson ==
    \/ ConstructKeys
    \/ SetColor
    \/ ToJson
    \/ FromJson

SpecJson == Init /\ [][NextJson]_vars

\* n.color = color
SetNeuronColor ==
    /\ Live
    /\ \E color \in ColorPool :
          Step([name |-> "set_color", color |-> color],
               Ok([heap[1] EXCEPT !.color = color], <<>>, None))

\* one neuron: color and soma detection set by the user, then reload and the cuts
NextSettings ==
    \/ Construct
    \/ SetSomaDetection
    \/ SetNeuronColor
    \/ Reload
    \/ PruneDistalTo
    \/ PruneProximalTo

SpecSettings == Init /\ [][NextSettings]_vars

\* nl._remote_instance
ListReadSession ==
    /\ nl.exists
    /\ LStep([name |-> "nl.read", key |-> "_remote_instance"],
             [heap |-> heap, nl |-> nl, calls |-> <<>>,
              exc |-> nl_remote_instance(heap, nl).exc,
              val |-> nl_remote_instance(heap, nl).val])

\* lists whose members hold no session, one session, or their workers' copies
NextSession ==
    \/ ConstructList
    \/ ConstructParallel
    \/ ListReroot
    \/ ListSetRemoteInstance
    \/ ListRead
    \/ GetSkeletons
    \/ ListReadSession

SpecSession == Init /\ [][NextSession]_vars

MemberCuts == {2}

\* nl[i].prune_distal_to(node): a cut on one member
MemberPruneDistalTo ==
    /\ nl.exists
    /\ \E i \in 1..Len(nl.neurons), node \in MemberCuts, touch \in BOOLEAN :
          LStep([name |-> "member.prune_distal_to", i |-> i, node |-> node],
                [ForEach(heap, nl, <<nl.neurons[i]>>,
                         <<prune_distal_to(heap[nl.neurons[i]], Scalar(node), touch)>>)
                    EXCEPT !.val = None])

\* lists whose workers meet members that differ: some can be cut or rerooted,
\* some cannot
NextWorkers ==
    \/ ConstructPool
    \/ MemberPruneDistalTo
    \/ ListReroot
    \/ ListPruneDistalTo

SpecWorkers == Init /\ [][NextWorkers]_vars

\* nl.prune_distal_to(tag), tag a list with one entry per member
ListPruneDistalToEach ==
    /\ nl.exists
    /\ \E q \in {x \in RootLists(Len(nl.neurons)) : Len(x) = Len(nl.neurons)},
          touch \in BOOLEAN, done \in Finishes :
          LStep([name |-> "nl.prune_distal_to", kind |-> "list", tag |-> q, done |-> done],
                nl_prune_distal_to(heap, nl, List(q), touch, done))

\* lists: cuts with one node for all members or a list of nodes
NextPruneEach ==
    \/ ConstructParallel
    \/ ListPruneDistalTo
    \/ ListPruneProximalTo
    \/ ListPruneDistalToEach

SpecPruneEach == Init /\ [][NextPruneEach]_vars

\* nl[i].n_nodes and the other counts: a read on one member
MemberReadCount ==
    /\ nl.exists
    /\ \E i \in 1..Len(nl.neurons), key \in Counts :
          LStep([name |-> "member.count", i |-> i, key |-> key],
                [ForEach(heap, nl, <<nl.neurons[i]>>, <<ReadAttr(heap[nl.neurons[i]], key)>>)
                    EXCEPT !.val = ReadAttr(heap[nl.neurons[i]], key).val])

\* nl.n_nodes and the other counts: the vectorized read
ListReadCount ==
    /\ nl.exists
    /\ \E key \in Counts :
          LStep([name |-> "nl.read", key |-> key], nl__getattr__(heap, nl, key))

\* lists: the counts read on a member and on the list
NextCounts ==
    \/ ConstructList
    \/ MemberRead
    \/ MemberReadCount
    \/ ListReadCount

SpecCounts == Init /\ [][NextCounts]_vars

\* lists: the operations that hand back a part of the list
NextSubset ==
    \/ ConstructList
    \/ GetSkeletons
    \/ SetCopyOnSubset
    \/ ItemStr
    \/ ItemSlice
    \/ Sub
    \/ HasAnnotation

SpecSubset == Init /\ [][NextSubset]_vars

\* lists: reroot with one root for all members or one per member, in turn
NextEach ==
    \/ ConstructList
    \/ ListRead
    \/ ListReroot
    \/ ListRerootEach

SpecEach == Init /\ [][NextEach]_vars

(***************************************************************************)
(* Volume.  A volume is [vertices, faces, name, color]: the list of vertex *)
(* positions and the list of faces, a face being three indices (from 0)    *)
(* into the vertices.  In this machine heap holds the volumes made so far. *)
(***************************************************************************)
Volume(vertices, faces, name, color) ==
    [vertices |-> vertices, faces |-> faces, name |-> name, color |-> color]

\* color=(120, 120, 120, .6), the opacity in tenths
DefaultVolumeColor == <<120, 120, 120, 6>>

\* `[[f[0]+offs, f[1]+offs, f[2]+offs] for f in vol['faces']]`
Reindexed(faces, offs) == [j \in 1..Len(faces) |-> [c \in 1..3 |-> faces[j][c] + offs]]

RECURSIVE CombineAliased(_, _, _, _, _)
\* seeded fault: no fresh list is made, `vertices` is the first volume's list
CombineAliased(h, x, first, faces, k) ==
    IF k > Len(x) THEN [heap |-> h, vertices |-> IF first = 0 THEN <<>> ELSE h[first].vertices,
                        faces |-> faces]
    ELSE IF first = 0
    THEN CombineAliased(h, x, x[k], faces \o Reindexed(h[x[k]].faces, 0), k + 1)
    ELSE CombineAliased([h EXCEPT ![first].vertices = @ \o h[x[k]].vertices], x, first,
                        faces \o Reindexed(h[x[k]].faces, Len(h[first].vertices)), k + 1)

combine_into_first(h, x, name, color) ==
    LET r == CombineAliased(h, x, 0, <<>>, 1)
    IN [heap |-> r.heap, exc |-> "", val |-> Volume(r.vertices, r.faces, name, color)]

RECURSIVE CombineLoop(_, _, _, _, _)
\* `for vol in x: offs = len(vertices); vertices += vol['vertices']; faces += [...]`
\* from the k-th volume on; vertices and faces are lists of the call's own
CombineLoop(h, x, vertices, faces, k) ==
    IF k > Len(x) THEN [heap |-> h, vertices |-> vertices, faces |-> faces]
    ELSE CombineLoop(h, x, vertices \o h[x[k]].vertices,
                     faces \o Reindexed(h[x[k]].faces, Len(vertices)), k + 1)

\* Volume.combine(x, name, color) for a list x of volumes
combine(h, x, name, color) ==
    LET r == CombineLoop(h, x, <<>>, <<>>, 1)
    IN [heap |-> r.heap, exc |-> "", val |-> Volume(r.vertices, r.faces, name, color)]

Triangle == Volume(<<<<0, 0, 0>>, <<1, 0, 0>>, <<0, 1, 0>>>>, <<<<0, 1, 2>>>>, "LH_R", <<0, 0, 0, 1>>)
Square ==
    Volume(<<<<5, 5, 0>>, <<6, 5, 0>>, <<6, 6, 0>>, <<5, 6, 0>>>>, <<<<0, 1, 2>>, <<0, 2, 3>>>>,
           "MB_R", <<0, 0, 0, 1>>)
NoMesh == Volume(<<>>, <<>>, "empty", <<0, 0, 0, 1>>)
VolumePool == {Triangle, Square, NoMesh}

VStep(o, h, r) ==
    /\ heap' = h
    /\ op' = o
    /\ calls' = <<>>
    /\ ret' = r
    /\ pre' = heap
    /\ UNCHANGED <<nl, prenl>>

\* Volume(vertices=..., faces=..., name=..., color=...)
NewVolume ==
    /\ ~nl.exists /\ Len(heap) < MaxLen
    /\ \A o \in DOMAIN heap : "faces" \in DOMAIN heap[o]
    /\ \E v \in VolumePool :
          VStep([name |-> "Volume"], Append(heap, v), [exc |-> "", val |-> Len(heap) + 1])

\* the lists handed to combine, of n volumes made so far: the first k, all of
\* them last to first, and the first given twice around the last
Inputs(n) == {SubSeq(InOrder(n), 1, k) : k \in 0..n} \cup {LastFirst(n), <<1, n, 1>>}

\* Volume.combine([...]) of volumes made so far
Combine ==
    /\ ~nl.exists /\ heap # <<>>
    /\ \A o \in DOMAIN heap : "faces" \in DOMAIN heap[o]
    /\ \E x \in Inputs(Len(heap)) :
          LET r == combine(heap, x, "comb_vol", DefaultVolumeColor)
          IN VStep([name |-> "Volume.combine", x |-> x], r.heap, [exc |-> r.exc, val |-> r.val])

NextVolume ==
    \/ NewVolume
    \/ Combine

SpecVolume == Init /\ [][NextVolume]_vars

(***************************************************************************)
(* Properties.  op is the last call made, pre and prenl the heap and the   *)
(* list before it, calls the collaborator calls it made, ret its outcome.  *)
(***************************************************************************)
Mutators == {"reroot", "prune_distal_to", "prune_proximal_to", "downsample",
             "prune_by_longest_neurite", "prune_by_volume", "reload"}
NoDerived(n) == \A k \in Derived : ~Has(n, k)
Called == op.name # "none" /\ 1 \in DOMAIN pre

\* C1: when reroot, prune_distal_to, prune_proximal_to, downsample (in place),
\* prune_by_longest_neurite, prune_by_volume or reload returns, igraph, slabs and
\* nodes_geodesic_distance_matrix are all absent from the neuron, whatever was
\* cached before; and from a neuron without them only a read of one of them (or a
\* mutating call that raises after its collaborator read one) makes any present.
C1_DerivedAbsentAfterMutation ==
    Live /\ Called =>
       /\ (op.name \in Mutators /\ ret.exc = "" => NoDerived(heap[1]))
       /\ (NoDerived(pre[1]) /\ ~NoDerived(heap[1]) =>
              \/ op.name = "read" /\ op.key \in Derived
              \/ op.name \in Mutators /\ ret.exc # "")

C1_Witness ==
    /\ Live /\ Called
    /\ op.name = "reroot" /\ ret.exc = ""
    /\ \A k \in Derived : Has(pre[1], k)
    /\ NoDerived(heap[1])

SkeletonCall(n) == Call("get_neuron", <<n.skeleton_id>>, n._remote_instance)

\* C2: a read of nodes, connectors or tags on a neuron with a session and no
\* cached node table makes exactly one pymaid.get_neuron call and leaves nodes,
\* connectors, tags and neuron_name all cached; a read of one of the three on a
\* neuron whose node table is cached makes no call.
C2_OneFetchThenCached ==
    Live /\ Called /\ op.name = "read" /\ op.key \in Structural =>
       /\ (pre[1]._remote_instance # None /\ ~Has(pre[1], "nodes") =>
              /\ ret.exc = ""
              /\ calls = <<SkeletonCall(pre[1])>>
              /\ \A k \in Structural \cup {"neuron_name"} : Has(heap[1], k))
       /\ (Has(pre[1], "nodes") => calls = <<>> /\ ret.exc = "")

C2_Witness ==
    /\ Live /\ Called
    /\ op.name = "read" /\ op.key = "tags"
    /\ pre[1]._remote_instance # None /\ ~Has(pre[1], "nodes")
    /\ calls = <<SkeletonCall(pre[1])>>
    /\ Has(heap[1], "neuron_name")

\* C5: a read of nodes, connectors, tags, neuron_name, annotations, review_status,
\* igraph, slabs or nodes_geodesic_distance_matrix that finds the attribute cached
\* returns the cached value, makes no collaborator call and changes no field.
C5_CachedReadIsPure ==
    Live /\ Called /\ op.name = "read" /\ op.key \in Structural \cup Meta \cup Derived
         /\ Has(pre[1], op.key) =>
       /\ ret.exc = ""
       /\ ret.val = Val(pre[1], op.key)
       /\ calls = <<>>
       /\ heap[1] = pre[1]

C5_Witness ==
    /\ Live /\ Called
    /\ op.name = "read" /\ op.key = "annotations"
    /\ Has(pre[1], "annotations") /\ Has(pre[1], "igraph")
    /\ ret.val = ServerAnnotations

\* C6: constructing a neuron from "123456" or 123456 makes no fetch call and
\* leaves skeleton_id the string "123456", which then reads back without error;
\* without a session a read of nodes, connectors or tags raises the
\* missing-session error, makes no call and caches nothing.
C6_KeyConstructionNoSession ==
    Live =>
       /\ (op.name = "__init__" =>
              /\ calls = <<>> /\ ret.exc = ""
              /\ heap[1].skeleton_id = "123456"
              /\ \A k \in Structural \cup Meta \cup Derived : ~Has(heap[1], k))
       /\ (Called /\ op.name = "read" /\ pre[1]._remote_instance = None =>
              /\ (op.key = "skeleton_id" => ret = [exc |-> "", val |-> "123456"])
              /\ (op.key \in Structural /\ ~Has(pre[1], op.key) =>
                     /\ ret.exc = MissingSession
                     /\ calls = <<>>
                     /\ heap[1] = pre[1]))

C6_Witness ==
    /\ Live /\ Called
    /\ pre[1]._remote_instance = None
    /\ op.name = "read" /\ op.key = "connectors"
    /\ ret.exc = MissingSession
    /\ ~Has(heap[1], "nodes")

\* C7: without a session a read of review_status, annotations or neuron_name that
\* is not cached returns None, makes no call and leaves the neuron as it was, so
\* the attribute is still not cached.
C7_MetaWithoutSession ==
    Live /\ Called /\ op.name = "read" /\ op.key \in Meta
         /\ pre[1]._remote_instance = None /\ ~Has(pre[1], op.key) =>
       /\ ret = [exc |-> "", val |-> None]
       /\ calls = <<>>
       /\ heap[1] = pre[1]

C7_Witness ==
    /\ Live /\ Called
    /\ op.name = "read" /\ op.key = "review_status"
    /\ pre[1]._remote_instance = None
    /\ ret = [exc |-> "", val |-> None]
    /\ ~Has(heap[1], "review_status")

\* C9: CatmaidNeuron.downsample(inplace=False), when it returns, returns another
\* object than the neuron it was called on and leaves every field of that neuron
\* as it was before the call.
C9_CopyLeavesOriginal ==
    Live /\ Called /\ op.name = "downsample" /\ ~op.inplace /\ ret.exc = "" =>
       /\ ret.val # 1
       /\ heap[1] = pre[1]

Members(l) == Range(l.neurons)
ListCalled == nl.exists /\ prenl.exists
Missing(h, l) == SelectOids(h, l.neurons, LAMBDA n : ~Has(n, "nodes"))

\* C3: a vectorized structural read on a list whose members all have a session
\* makes one pymaid.get_neuron call carrying the skeleton ids of exactly the
\* members without a cached node table, in order, or no call when there is no such
\* member, and returns one value per member, in the order of the list.
C3_OneBatchedFetch ==
    ListCalled /\ op.name = "nl.read" /\ op.key \in VectorKeys
               /\ (\A o \in Members(prenl) : pre[o]._remote_instance # None) =>
       /\ ret.exc = ""
       /\ calls = IF Missing(pre, prenl) = <<>> THEN <<>>
                  ELSE <<Call("get_neuron", SkidsOf(pre, Missing(pre, prenl)),
                              pre[prenl.neurons[1]]._remote_instance)>>
       /\ nl.neurons = prenl.neurons
       /\ Len(ret.val) = Len(nl.neurons)
       /\ \A i \in 1..Len(nl.neurons) :
             ret.val[i] = ReadAttr(heap[nl.neurons[i]], op.key).val

C3_Witness ==
    /\ ListCalled /\ op.name = "nl.read" /\ op.key = "cable_length"
    /\ Len(nl.neurons) = 3
    /\ Len(Missing(pre, prenl)) = 2
    /\ Len(calls) = 1 /\ Len(calls[1].skids) = 2
    /\ Len(ret.val) = 3

Requested == UNION {Range(calls[i].skids) : i \in 1..Len(calls)}

\* C4: get_skeletons(skip_existing=True) changes no field of a member that has a
\* node table and does not request its skeleton id; get_skeletons(skip_existing=
\* False) and reload(), when they return, have requested every member and left
\* each with the nodes, connectors and tags just fetched.
C4_SkipExistingKeepsCached ==
    ListCalled =>
       /\ (op.name = "nl.get_skeletons" /\ op.skip_existing =>
              \A o \in Members(prenl) :
                 Has(pre[o], "nodes") =>
                    heap[o] = pre[o] /\ pre[o].skeleton_id \notin Requested)
       /\ (/\ \/ op.name = "nl.reload"
              \/ op.name = "nl.get_skeletons" /\ ~op.skip_existing
           /\ ret.exc = ""
           => \A o \in Members(prenl) :
                 /\ pre[o].skeleton_id \in Requested
                 /\ \A k \in Structural :
                       heap[o][k] = StoreSkeleton(pre[o], pymaid_get_neuron(pre[o].skeleton_id))[k]
                 /\ NoDerived(heap[o]))

C4_Witness ==
    /\ ListCalled /\ op.name = "nl.get_skeletons" /\ op.skip_existing
    /\ Len(calls) = 1
    /\ \E o \in Members(prenl) :
          /\ Has(pre[o], "igraph")
          /\ heap[o] = pre[o]

\* C8: CatmaidNeuronList.downsample(inplace=False) returns.
C8_CopyDownsampleReturns ==
    ListCalled /\ op.name = "nl.downsample" /\ ~op.inplace => ret.exc = ""

\* C10: nl.ix[i] is the neuron nl[i] at every position of the list, and nl.skid[k]
\* for the skeleton id of a member is a member of the list.
C10_IndexersFollowList ==
    nl.exists =>
       /\ \A i \in 0..(Len(nl.neurons) - 1) :
             ix__getitem__(heap, nl, i).val = nl__getitem__(heap, nl, i).val
       /\ \A i \in 1..Len(SkidPool) :
             (\E o \in Members(nl) : heap[o].skeleton_id = IntToStr(SkidPool[i])) =>
                skid__getitem__(heap, nl, SkidPool[i]).val \in Members(nl)

StructuralMutators == {"reroot", "prune_distal_to", "prune_proximal_to", "downsample",
                       "prune_by_strahler", "prune_by_longest_neurite", "prune_by_volume"}

\* C20: reroot, prune_distal_to, prune_proximal_to, downsample, prune_by_strahler,
\* prune_by_longest_neurite and prune_by_volume, whether they return or raise,
\* leave review_status and annotations in the neuron exactly as they were.
C20_MetadataSurvivesMutation ==
    Live /\ Called /\ op.name \in StructuralMutators =>
       /\ heap[1].review_status = pre[1].review_status
       /\ heap[1].annotations = pre[1].annotations

C20_Witness ==
    /\ Live /\ Called
    /\ op.name = "prune_distal_to" /\ ret.exc = ""
    /\ Has(pre[1], "nodes") /\ Has(heap[1], "nodes")
    /\ Val(heap[1], "nodes").ids # Val(pre[1], "nodes").ids
    /\ Has(pre[1], "review_status") /\ Has(pre[1], "annotations")
    /\ Has(heap[1], "review_status") /\ Has(heap[1], "annotations")

\* C14: CatmaidNeuron(x) for a CatmaidNeuron x (x.copy()) makes no collaborator
\* call and leaves every field of x as it was, whether or not x has a node table.
C14_CopyMakesNoFetch ==
    Live /\ Called /\ op.name = "copy" => calls = <<>> /\ heap[1] = pre[1]

BulkOps == {"nl.reroot", "nl.prune_distal_to", "nl.prune_proximal_to", "nl.prune_by_strahler",
            "nl.prune_by_longest_neurite", "nl.prune_by_volume"}

\* what the operation recorded in o does to n, the neuron at position i
Applied(o, n, i, touch) ==
    CASE o.name = "nl.reroot" -> reroot(n, o.new_root[i], touch)
      [] o.name = "nl.prune_distal_to" -> prune_distal_to(n, Scalar(o.tag), touch)
      [] o.name = "nl.prune_proximal_to" -> prune_proximal_to(n, o.tag, touch)
      [] o.name = "nl.prune_by_strahler" -> prune_by_strahler(n, {1}, touch)
      [] o.name = "nl.prune_by_longest_neurite" -> prune_by_longest_neurite(n, FALSE, touch)
      [] o.name = "nl.prune_by_volume" -> prune_by_volume(n, o.v, "IN", touch)

\* C11: with parallel workers, a bulk operation that returns leaves a list of the
\* same length whose position i holds the neuron that was at position i (same
\* skeleton id) with the operation applied to it, whatever the order in which the
\* workers finished.
C11_ParallelKeepsPositions ==
    ListCalled /\ prenl._use_parallel /\ op.name \in BulkOps /\ ret.exc = "" =>
       /\ Len(nl.neurons) = Len(prenl.neurons)
       /\ \A i \in 1..Len(prenl.neurons) :
             /\ heap[nl.neurons[i]].skeleton_id = pre[prenl.neurons[i]].skeleton_id
             /\ \E touch \in BOOLEAN :
                   heap[nl.neurons[i]] = Applied(op, Pickle(pre[prenl.neurons[i]], i), i, touch).n

C11_Witness ==
    /\ ListCalled /\ prenl._use_parallel /\ op.name = "nl.prune_distal_to" /\ ret.exc = ""
    /\ Len(prenl.neurons) = MaxLen /\ op.done = LastFirst(MaxLen)
    /\ \A i \in 1..MaxLen :
          /\ Has(pre[prenl.neurons[i]], "nodes")
          /\ Val(heap[nl.neurons[i]], "nodes").ids # Val(pre[prenl.neurons[i]], "nodes").ids

\* member i of the list as it was before the call now has root r and no derived cache
Rerooted(i, r) ==
    /\ Has(heap[prenl.neurons[i]], "nodes")
    /\ Val(heap[prenl.neurons[i]], "nodes").root = r
    /\ NoDerived(heap[prenl.neurons[i]])

\* C19: without parallel workers, reroot(r) reroots every member to r for a scalar
\* r and member i to r[i] for a list r with one entry per member, and purges each
\* member's derived caches; the members are worked on from left to right, so when
\* the call raises at some member, those before it are rerooted and those after
\* it are as they were.
C19_SequentialReroot ==
    ListCalled /\ ~prenl._use_parallel /\ op.name = "nl.reroot" =>
       /\ nl.neurons = prenl.neurons
       /\ ret.exc = "" /\ Len(op.new_root) = Len(prenl.neurons) =>
             \A i \in 1..Len(prenl.neurons) : Rerooted(i, op.new_root[i])
       /\ ret.exc # "" =>
             \E j \in 1..Len(prenl.neurons) :
                /\ \A i \in 1..(j - 1) : Rerooted(i, op.new_root[i])
                /\ \A i \in j..Len(prenl.neurons) :
                      heap[prenl.neurons[i]] = pre[prenl.neurons[i]]

C19_Witness ==
    /\ ListCalled /\ ~prenl._use_parallel /\ op.name = "nl.reroot" /\ ret.exc = ""
    /\ Len(prenl.neurons) = MaxLen /\ op.new_root[1] # op.new_root[2]
    /\ \A i \in 1..MaxLen : Has(pre[prenl.neurons[i]], "igraph")
    /\ \A i \in 1..MaxLen : Rerooted(i, op.new_root[i])

\* C12: list[key] for a str key that does not start with 'annotation:', and
\* list - x, make no call to a fetch collaborator, whether or not the members
\* have a cached name.
C12_MatchingMakesNoFetch ==
    ListCalled /\ (op.name = "nl.__sub__" \/ (op.name = "nl.__getitem__" /\ op.kind = "str")) =>
       calls = <<>>

\* C13: a subsetting operation that hands back a list hands back the parent's own
\* member objects when the parent's copy_on_subset is False and new objects when
\* it is True.
C13_CopyOnSubsetDecides ==
    ListCalled /\ op.name \in {"nl.__getitem__", "nl.has_annotation", "nl.__sub__"}
               /\ ret.exc = "" =>
       IF prenl.copy_on_subset THEN Range(ret.val.neurons) \cap DOMAIN pre = {}
       ELSE Range(ret.val.neurons) \subseteq Members(prenl)

\* the skeleton id a subtrahend stands for
TargetSkid(to_sub) ==
    CASE to_sub.kind = "int" -> IntToStr(to_sub.v)
      [] to_sub.kind = "str" -> to_sub.v
      [] to_sub.kind = "neuron" -> to_sub.skeleton_id

\* C17: list - n for a neuron n, and list - k for a skeleton id k given as str or
\* int, hand back the members, in order, whose skeleton id differs from n's
\* (from str(k)), also when n is another object than the member.
C17_SubRemovesBySkeletonId ==
    ListCalled /\ op.name = "nl.__sub__" /\ ret.exc = "" =>
       [i \in 1..Len(ret.val.members) |-> ret.val.members[i].skeleton_id]
          = SelectSeq(SkidsOf(pre, prenl.neurons), LAMBDA id : id # TargetSkid(op.to_sub))

\* C18: has_annotation(x, intersect=True) hands back exactly the members, in
\* order, whose annotations contain every annotation in x (and raises for want of
\* a match only when there is no such member).
C18_IntersectNeedsAll ==
    ListCalled /\ op.name = "nl.has_annotation" /\ op.intersect
               /\ ret.exc \in {"", "ValueError"}
               /\ (\A o \in Members(prenl) : Has(heap[o], "annotations")) =>
       IF ret.exc = ""
       THEN [i \in 1..Len(ret.val.members) |-> ret.val.members[i].skeleton_id]
               = SkidsOf(heap, SelectSeq(prenl.neurons,
                                         LAMBDA o : Range(op.x) \subseteq
                                                       Range(Val(heap[o], "annotations"))))
       ELSE \A o \in Members(prenl) :
               ~(Range(op.x) \subseteq Range(Val(heap[o], "annotations")))

\* the members of the list before the call with the skeleton id str(k)
Matching(k) ==
    SelectSeq(prenl.neurons,
              LAMBDA o : pre[o].skeleton_id = (IF k.kind = "int" THEN IntToStr(k.v) ELSE k.v))

\* C15: nl.skid[k] changes nothing; for k coercible to an int it returns the
\* first member of the list whose skeleton id is str(k) and raises ValueError when
\* there is none; for any other k it raises the invalid-index exception.
C15_SkidIndexer ==
    ListCalled /\ op.name = "nl.skid" =>
       /\ nl = prenl /\ heap = pre
       /\ IF op.key.kind = "str" /\ ~Numeric(op.key.v)
          THEN ret.exc = "Exception: Can only index skeleton IDs"
          ELSE IF Matching(op.key) = <<>> THEN ret.exc = "ValueError"
          ELSE ret.exc = "" /\ ret.val = Matching(op.key)[1]

\* C16: nl.ix[key] changes nothing; it returns the member at position key for an
\* int within the list, the members of the range in order for a slice, and raises
\* for a key of another type.
C16_IxIndexer ==
    ListCalled /\ op.name = "nl.ix" =>
       /\ nl = prenl /\ heap = pre
       /\ op.key.kind = "int" /\ op.key.v < Len(prenl.neurons) =>
             ret.exc = "" /\ ret.val = prenl.neurons[op.key.v + 1]
       /\ op.key.kind = "slice" =>
             /\ ret.exc = ""
             /\ ret.val = SubSeq(prenl.neurons, op.key.start + 1,
                                 IF op.key.stop > Len(prenl.neurons) THEN Len(prenl.neurons)
                                 ELSE op.key.stop)
       /\ op.key.kind = "str" => ret.exc # ""

SomaCandidates(n) ==
    {v \in Val(n, "nodes").ids :
        /\ Radius0[v] > n.soma_detection_radius
        /\ n.soma_detection_tag # None =>
              /\ n.soma_detection_tag \in DOMAIN Val(n, "tags")
              /\ v \in Val(n, "tags")[n.soma_detection_tag]}

\* C21: a read of soma that returns gives None when there is no candidate node,
\* the node id when there is exactly one, and the list of all candidates when
\* there are several.
C21_SomaByCandidates ==
    Live /\ Called /\ op.name = "read" /\ op.key = "soma" /\ ret.exc = "" =>
       LET C == SomaCandidates(heap[1])
       IN ToString(ret.val) = ToString(IF C = {} THEN None
                                       ELSE IF Cardinality(C) = 1 THEN CHOOSE v \in C : TRUE
                                       ELSE AsList(C))

C21_Witness ==
    /\ Live /\ Called /\ op.name = "read" /\ op.key = "soma" /\ ret.exc = ""
    /\ heap[1].soma_detection_tag = "ends"
    /\ Cardinality(SomaCandidates(heap[1])) = 1
    /\ Cardinality({v \in Val(heap[1], "nodes").ids :
                       Radius0[v] > heap[1].soma_detection_radius}) > 1

\* C22: with an empty node table in __dict__, n_open_ends, n_branch_nodes,
\* n_end_nodes and cable_length read as 0 and the read calls no collaborator.
C22_EmptyNeuronCountsZero ==
    /\ Live /\ Called /\ op.name = "read" /\ op.key \in ZeroWhenEmpty
    /\ Has(pre[1], "nodes") /\ Val(pre[1], "nodes").ids = {}
    => /\ ret.exc = ""
       /\ ToString(ret.val) = ToString(0)
       /\ calls = <<>>
       /\ heap[1] = pre[1]

C22_Witness ==
    /\ Live /\ Called /\ op.name = "read" /\ op.key = "cable_length"
    /\ Has(pre[1], "nodes") /\ Val(pre[1], "nodes").ids = {}
    /\ ret.exc = "" /\ calls = <<>>

\* C30: downsample(factor, preserve_cn_treenodes, inplace=False) hands back a neuron
\* equal to the one an in-place downsample with the same factor and the same
\* preserve_cn_treenodes leaves behind when applied to a copy, for both flag values.
C30_CopyDownsampleSameFlags ==
    /\ Live /\ Called /\ op.name = "downsample" /\ ~op.inplace /\ ret.exc = ""
    => \E touch \in BOOLEAN :
          LET c == copy(pre[1])
              d == downsample(c.n, 5, op.preserve_cn_treenodes, TRUE, touch)
          IN c.exc = "" /\ d.exc = "" /\ heap[ret.val] = d.n

\* C29: on a list with parallel workers enabled, downsample (in place) returns
\* without error and leaves every member as the sequential loop leaves it for the
\* same factor and preserve_cn_treenodes (the workers hand back copies bound to
\* their own session object, so the session is left out of the comparison).
C29_ParallelDownsampleAsSequential ==
    /\ ListCalled /\ op.name = "nl.downsample" /\ op.inplace /\ prenl._use_parallel
    => LET s == nl_downsample(pre, [prenl EXCEPT !._use_parallel = FALSE], op.factor,
                              op.preserve_cn_treenodes, TRUE, op.touch, None, 0)
       IN /\ ret.exc = ""
          /\ Len(nl.neurons) = Len(s.nl.neurons)
          /\ \A i \in 1..Len(nl.neurons) :
                [heap[nl.neurons[i]] EXCEPT !._remote_instance = None]
                   = [s.heap[s.nl.neurons[i]] EXCEPT !._remote_instance = None]

NumericKeys == {"n_nodes", "n_connectors", "n_open_ends", "n_end_nodes", "n_branch_nodes",
                "cable_length"}

\* C23: a vectorized read of a numeric attribute on an empty list returns an
\* empty sequence, raises nothing and makes no fetch call, with or without a
\* session.
C23_EmptyListReadsEmpty ==
    /\ ListCalled /\ op.name = "nl.read" /\ op.key \in NumericKeys
    /\ prenl.neurons = <<>>
    => /\ ret.exc = ""
       /\ ret.val = <<>>
       /\ calls = <<>>
       /\ nl = prenl /\ heap = pre

C23_Witness ==
    /\ ListCalled /\ op.name = "nl.read" /\ op.key = "n_nodes"
    /\ prenl.neurons = <<>>
    /\ nl_remote_instance(pre, prenl).exc # ""
    /\ ret.exc = "" /\ calls = <<>>

LazyMetaRead == ListCalled /\ op.name = "nl.read" /\ op.key \in MetaKeys

\* C27: a lazy vectorized read of neuron_name, review_status or annotations asks
\* the server only for skeleton ids of members that lacked the attribute, and
\* leaves the attribute of every member that had it cached as it was.
C27_LazyReadOnlyMissing ==
    LazyMetaRead =>
       /\ Requested \subseteq Range(SkidsOf(pre, Lacking(pre, prenl, op.key)))
       /\ \A o \in Range(prenl.neurons) :
             Has(pre[o], op.key) => heap[o][op.key] = pre[o][op.key]

\* C28: a vectorized read of review_status, annotations or neuron_name on a list
\* with members that lack the attribute makes exactly one external call, after
\* which every member that lacked it has it cached.
C28_OneCallWritesBack ==
    LazyMetaRead /\ Lacking(pre, prenl, op.key) # <<>> /\ ret.exc = "" =>
       /\ Len(calls) = 1
       /\ \A o \in Range(Lacking(pre, prenl, op.key)) : Has(heap[o], op.key)

\* C24: from_json of the file nl.to_json wrote yields a list with the skeleton
\* ids of nl in the same order, each member with the color of the member of nl
\* at its position.
C24_JsonRoundTrip ==
    ListCalled /\ op.name = "from_json" =>
       /\ ret.exc = ""
       /\ Len(ret.val.members) = Len(nl.neurons)
       /\ \A i \in 1..Len(nl.neurons) :
             /\ ret.val.members[i].skeleton_id = heap[nl.neurons[i]].skeleton_id
             /\ ret.val.members[i].color = heap[nl.neurons[i]].color

RECURSIVE VerticesBefore(_, _, _)
\* the number of vertices of the first k - 1 volumes of x
VerticesBefore(h, x, k) ==
    IF k <= 1 THEN 0 ELSE VerticesBefore(h, x, k - 1) + Len(h[x[k - 1]].vertices)

RECURSIVE FacesBefore(_, _, _)
FacesBefore(h, x, k) == IF k <= 1 THEN 0 ELSE FacesBefore(h, x, k - 1) + Len(h[x[k - 1]].faces)

\* C25: Volume.combine of a list of volumes returns a volume whose vertices are
\* the inputs' vertices in input order and whose faces are the inputs' faces, each
\* index raised by the number of vertices of the earlier inputs: every combined
\* face names the positions the original face names in its own volume, every face
\* index is below the combined vertex count, and the inputs are as before.
C25_CombineRebasesFaces ==
    ~nl.exists /\ op.name = "Volume.combine" =>
       LET x == op.x
           v == ret.val
           n == Len(x)
       IN /\ ret.exc = ""
          /\ Len(v.vertices) = VerticesBefore(pre, x, n + 1)
          /\ Len(v.faces) = FacesBefore(pre, x, n + 1)
          /\ \A k \in 1..n :
                /\ \A i \in 1..Len(pre[x[k]].vertices) :
                      v.vertices[VerticesBefore(pre, x, k) + i] = pre[x[k]].vertices[i]
                /\ \A j \in 1..Len(pre[x[k]].faces), c \in 1..3 :
                      LET f == v.faces[FacesBefore(pre, x, k) + j][c]
                      IN /\ f = pre[x[k]].faces[j][c] + VerticesBefore(pre, x, k)
                         /\ v.vertices[f + 1] = pre[x[k]].vertices[pre[x[k]].faces[j][c] + 1]
          /\ \A j \in 1..Len(v.faces), c \in 1..3 : v.faces[j][c] < Len(v.vertices)
          /\ heap = pre

C25_Witness ==
    /\ ~nl.exists /\ op.name = "Volume.combine" /\ ret.exc = ""
    /\ Len(op.x) = 3 /\ op.x[1] = op.x[3]
    /\ pre[op.x[1]] = Triangle /\ pre[op.x[2]] = Square
    /\ ret.val.faces[4] = <<7, 8, 9>>

\* C32: reload() without a session argument on a neuron that stores no session
\* raises the missing-session error, makes no pymaid.get_neuron call and leaves
\* the neuron as it was.
C32_ReloadWithoutSession ==
    Live /\ Called /\ op.name = "reload" /\ pre[1]._remote_instance = None =>
       /\ ret.exc = MissingSession
       /\ calls = <<>>
       /\ heap[1] = pre[1]

\* C38: reload, prune_distal_to and prune_proximal_to leave color,
\* soma_detection_radius and soma_detection_tag as they were before the call.
C38_SettingsSurvive ==
    Live /\ Called /\ op.name \in {"reload", "prune_distal_to", "prune_proximal_to"} =>
       /\ heap[1].color = pre[1].color
       /\ heap[1].soma_detection_radius = pre[1].soma_detection_radius
       /\ heap[1].soma_detection_tag = pre[1].soma_detection_tag

\* the node table the neuron has when a call starts: the cached one, else the
\* server's, fetched on first use
TableAtCall(n) == IF Has(n, "nodes") THEN Val(n, "nodes") ELSE Table(1, NodeIds)

\* what a cut at c leaves of the table t: c and everything not distal to it
Proximal(t, c) == [t EXCEPT !.ids = (t.ids \ DistalIds(t, c)) \cup {c}]

RECURSIVE Remainder(_, _)
\* the table left after cutting at `nodes` in order, each cut made on what the
\* cut before left
Remainder(t, nodes) ==
    IF nodes = <<>> THEN t ELSE Remainder(Proximal(t, Head(nodes)), Tail(nodes))

RECURSIVE Cuttable(_, _)
\* every node of `nodes` is in the table when its turn comes
Cuttable(t, nodes) ==
    \/ nodes = <<>>
    \/ Head(nodes) \in t.ids /\ Cuttable(Proximal(t, Head(nodes)), Tail(nodes))

\* C33: prune_distal_to with a list of nodes cuts in list order, each cut made
\* on the proximal remainder of the one before; when the call returns the node
\* table holds the proximal remainder of the last cut.
C33_CutsInListOrder ==
    /\ Live /\ Called /\ op.name = "prune_distal_to" /\ ~op.scalar
    /\ pre[1]._remote_instance # None \/ Has(pre[1], "nodes")
    => /\ ret.exc = "" <=> Cuttable(TableAtCall(pre[1]), op.node)
       /\ ret.exc = "" =>
             Val(heap[1], "nodes").ids = Remainder(TableAtCall(pre[1]), op.node).ids

C33_Witness ==
    /\ Live /\ Called /\ op.name = "prune_distal_to" /\ ~op.scalar
    /\ op.node = <<5, 3>> /\ ret.exc = ""
    /\ Has(pre[1], "nodes") /\ Val(pre[1], "nodes").ids = NodeIds
    /\ Has(heap[1], "nodes") /\ Val(heap[1], "nodes").ids = {1, 2, 3}

\* every derived cache the neuron holds is the one its node table gives
CachesCurrent(n) ==
    /\ Has(n, "igraph") => Val(n, "igraph") = neuron2graph(Val(n, "nodes"))
    /\ Has(n, "slabs") => Val(n, "slabs") = generate_slabs(Val(n, "nodes"))
    /\ Has(n, "nodes_geodesic_distance_matrix") =>
          Val(n, "nodes_geodesic_distance_matrix")
             = shortest_paths(neuron2graph(Val(n, "nodes")))

\* the neuron as prune_distal_to hands it to the k-th cut
HandedToCut(self, nodes, touch, k) == DistalLoop(self, SubSeq(nodes, 1, k - 1), touch)

\* C37: in prune_distal_to with several nodes, the neuron handed to each cut
\* after the first holds no igraph, slabs or distance matrix other than those of
\* its current node table, whether or not the cut before read the graph.
C37_NoStaleCacheBetweenCuts ==
    Live /\ Called /\ op.name = "prune_distal_to" /\ ~op.scalar =>
       \A k \in 2..Len(op.node), touch \in BOOLEAN :
          HandedToCut(pre[1], op.node, touch, k).exc = "" =>
             CachesCurrent(HandedToCut(pre[1], op.node, touch, k).n)

\* the members that hold a session, in list order
WithSession(h, l) == SelectSeq(l.neurons, LAMBDA o : h[o]._remote_instance # None)

\* C39: reading the list's _remote_instance returns the session of the first
\* member that has one whenever some member has one, also when members hold
\* different sessions, and raises only when no member has one.
C39_FirstSessionReturned ==
    ListCalled /\ op.name = "nl.read" /\ op.key = "_remote_instance" =>
       IF WithSession(pre, prenl) = <<>> THEN ret.exc # ""
       ELSE /\ ret.exc = ""
            /\ ret.val = pre[WithSession(pre, prenl)[1]]._remote_instance


\* C35: when the batched fetch of CatmaidNeuronList.get_skeletons fails, the error
\* reaches the caller and every member is as it was before the call: nodes,
\* connectors, tags, neuron_name and the derived caches alike
FetchFails(h, l, skip_existing) ==
    /\ (IF skip_existing THEN Missing(h, l) ELSE l.neurons) # <<>>
    /\ Cardinality({h[o]._remote_instance : o \in Range(l.neurons)} \ {None}) # 1

C35_FailedFetchChangesNothing ==
    ListCalled /\ op.name = "nl.get_skeletons" /\ FetchFails(pre, prenl, op.skip_existing) =>
       /\ ret.exc # ""
       /\ nl = prenl
       /\ heap = pre

\* get_neuron went out for two members holding different sessions and raised
C35_Witness ==
    /\ ListCalled /\ op.name = "nl.get_skeletons" /\ ~op.skip_existing
    /\ Len(calls) = 1 /\ calls[1].fn = "get_neuron" /\ calls[1].ri = None
    /\ ret.exc = MissingSession
    /\ Len(prenl.neurons) = 2
    /\ \A i \in 1..2 : Has(pre[prenl.neurons[i]], "nodes")


\* the workers of the last call that raise, one task per member
FailingWorkers ==
    {i \in 1..Len(prenl.neurons) :
        IF op.name = "nl.reroot"
        THEN reroot(Member(pre, prenl, i), op.new_root[i], FALSE).exc # ""
        ELSE prune_distal_to(Member(pre, prenl, i), Scalar(op.tag), FALSE).exc # ""}

\* C34: when a worker fails during a parallel reroot or prune_distal_to on a list,
\* the call raises and the list's member sequence is what it was before the call:
\* no position has been replaced
C34_WorkerFailureLeavesList ==
    ListCalled /\ op.name \in {"nl.reroot", "nl.prune_distal_to"} /\ prenl._use_parallel
               /\ FailingWorkers # {} =>
       /\ ret.exc # ""
       /\ nl.neurons = prenl.neurons
       /\ \A i \in 1..Len(nl.neurons) : heap[nl.neurons[i]] = pre[prenl.neurons[i]]

\* the second of two workers raised, the first did not
C34_Witness ==
    /\ ListCalled /\ op.name \in {"nl.reroot", "nl.prune_distal_to"} /\ prenl._use_parallel
    /\ FailingWorkers = {2}
    /\ ret.exc = "ValueError"


\* what member i of the list is after the cut the last call names for it, made on
\* that member alone
CutAlone(i) ==
    IF op.name = "nl.prune_proximal_to"
    THEN prune_proximal_to(Member(pre, prenl, i), op.tag, FALSE)
    ELSE prune_distal_to(Member(pre, prenl, i),
                         Scalar(IF "kind" \in DOMAIN op THEN op.tag[i] ELSE op.tag), FALSE)

\* C31: CatmaidNeuronList.prune_distal_to and prune_proximal_to given a list with
\* one entry per member cut member i at entry i only; given a scalar they cut
\* every member at it
C31_EntryPerMember ==
    ListCalled /\ op.name \in {"nl.prune_distal_to", "nl.prune_proximal_to"}
               /\ (\A i \in 1..Len(prenl.neurons) : CutAlone(i).exc = "") =>
       /\ ret.exc = ""
       /\ Len(nl.neurons) = Len(prenl.neurons)
       /\ \A i \in 1..Len(nl.neurons) :
             Val(heap[nl.neurons[i]], "nodes") = Val(CutAlone(i).n, "nodes")


(***************************************************************************)
(* CatmaidNeuron.from_swc.  A file is the list of its lines as csv.reader  *)
(* (delimiter ' ') hands them out: a line is the list of its entries, an   *)
(* entry the sequence of its characters; two blanks in a row give an empty *)
(* entry.  A float is [nan, v]: not-a-number, or the number v.  The node   *)
(* table of such a neuron is the list of its rows, seven floats each.      *)
(***************************************************************************)
NaN == [nan |-> TRUE, v |-> 0]

\* float(e) for the entries in use: decimal integers with or without a sign, 'nan'
Float(e) ==
    IF e = <<"n", "a", "n">> THEN NaN
    ELSE IF Head(e) = "-" THEN [nan |-> FALSE, v |-> 0 - ParseInt(Tail(e), 10)]
    ELSE [nan |-> FALSE, v |-> ParseInt(e, 10)]

SwcColumns == <<"treenode_id", "label", "x", "y", "z", "radius", "parent_id">>

\* `nodes[['x','y','z','radius']] *= 1000`
ToNm(f) == [f EXCEPT !.v = @ * 1000]

\* CatmaidNeuron.from_swc(filename, neuron_name, neuron_id) on a file whose rows
\* have seven entries; neuron_id 0 stands for None, `random` for what
\* random.randint hands out.  The result is the neuron CatmaidNeuron(df) builds
\* from the one-row frame: tags is the set of the tags in use, here none.
from_swc(file, neuron_name, neuron_id, random) ==
    LET data == SelectSeq(file, LAMBDA row : row # <<>> /\ (Head(row) = <<>> \/ Head(Head(row)) # "#"))
        floats == [i \in 1..Len(data) |->
                      LET es == SelectSeq(data[i], LAMBDA e : e # <<>>)
                      IN [k \in 1..Len(es) |-> Float(es[k])]]
    IN [skeleton_id |-> IntToStr(IF neuron_id = 0 THEN random ELSE neuron_id),
        neuron_name |-> IF neuron_name = None THEN "neuron.swc" ELSE neuron_name,
        nodes |-> [i \in 1..Len(floats) |->
                      [c \in Range(SwcColumns) |->
                          IF c \in {"x", "y", "z", "radius"}
                          THEN ToNm(floats[i][CHOOSE k \in 1..7 : SwcColumns[k] = c])
                          ELSE floats[i][CHOOSE k \in 1..7 : SwcColumns[k] = c]]],
        tags |-> {},
        _remote_instance |-> None,
        soma_detection_radius |-> DefaultSomaRadius,
        soma_detection_tag |-> DefaultSomaTag,
        color |-> DefaultColor]

\* CatmaidNeuron._get_root on a table of rows:
\* self.nodes[self.nodes.parent_id.isnull()].treenode_id.tolist()[0]
swc_get_root(self) ==
    LET roots == SelectSeq(self.nodes, LAMBDA row : row.parent_id.nan)
    IN IF roots = <<>> THEN Raise(self, <<>>, "IndexError")
       ELSE Ok(self, <<>>, roots[1].treenode_id)

\* CatmaidNeuron._get_soma on a table of rows
swc_get_soma(self) ==
    LET big == SelectSeq(self.nodes, LAMBDA row :
                   ~row.radius.nan /\ row.radius.v > self.soma_detection_radius)
        tn == [i \in 1..Len(big) |-> big[i].treenode_id]
    IN IF self.soma_detection_tag # None
       THEN \* no tag is in self.tags
            Ok(self, <<>>, None)
       ELSE IF Len(tn) = 1 THEN Ok(self, <<>>, tn[1])
       ELSE IF Len(tn) = 0 THEN Ok(self, <<>>, None)
       ELSE Ok(self, <<>>, tn)

\* n.nodes[column].tolist()
Column(self, c) == Ok(self, <<>>, [i \in 1..Len(self.nodes) |-> self.nodes[i][c]])

\* the files: three rows, root, mid and leaf, each the parent of the next
Entry(k) == IF k < 0 THEN <<"-">> \o Digits(0 - k) ELSE Digits(k)
SwcIds == {<<1, 2, 3>>, <<7, 2, 9>>}
SwcRootParents == {Entry(0 - 1), <<"n", "a", "n">>}
SwcCoords == {2, 15}
SwcRadii == {1, 0}
SwcNames == {None, "DA1"}
SwcNeuronIds == {0, 16}
RandomIds == {100000, 999999}

SwcRow(id, c, radius, parent, pad) ==
    <<Entry(id)>> \o (IF pad THEN <<<<>>>> ELSE <<>>)
       \o <<Entry(0), Entry(c), Entry(c + 1), Entry(c + 2), Entry(radius), parent>>

SwcFile(ids, rootparent, c, radius, lead, pad) ==
    (IF lead THEN <<<<<<"#">>, <<"i", "d">>>>, <<>>>> ELSE <<>>)
       \o <<SwcRow(ids[1], c, radius, rootparent, pad),
            SwcRow(ids[2], c + 3, radius, Entry(ids[1]), FALSE),
            SwcRow(ids[3], c + 6, radius, Entry(ids[2]), pad)>>

FromSwc ==
    /\ heap = <<>> /\ ~nl.exists
    /\ \E ids \in SwcIds, rootparent \in SwcRootParents, c \in SwcCoords, radius \in SwcRadii,
          lead \in BOOLEAN, pad \in BOOLEAN, neuron_name \in SwcNames,
          neuron_id \in SwcNeuronIds, random \in RandomIds :
          Step([name |-> "from_swc", ids |-> ids, rootparent |-> rootparent, c |-> c,
                radius |-> radius, neuron_name |-> neuron_name, neuron_id |-> neuron_id],
               Ok(from_swc(SwcFile(ids, rootparent, c, radius, lead, pad),
                           neuron_name, neuron_id, random), <<>>, None))

\* n.root, n.soma, n.nodes.x and so on, on the parsed neuron
ReadSwc ==
    /\ Live /\ "ids" \in DOMAIN op
    /\ \/ Step([op EXCEPT !.name = "swc.read.root"], swc_get_root(heap[1]))
       \/ Step([op EXCEPT !.name = "swc.read.soma"], swc_get_soma(heap[1]))
       \/ \E c \in {"x", "y", "z", "radius"} :
             Step([op EXCEPT !.name = "swc.read." \o c], Column(heap[1], c))

\* n.soma_detection_tag = None on the parsed neuron
SwcSomaByRadius ==
    /\ Live /\ "ids" \in DOMAIN op /\ heap[1].soma_detection_tag # None
    /\ Step(op, Ok([heap[1] EXCEPT !.soma_detection_tag = None], <<>>, None))

NextSwc ==
    \/ FromSwc
    \/ ReadSwc
    \/ SwcSomaByRadius

SpecSwc == Init /\ [][NextSwc]_vars

\* the columns of the file the neuron of the last call was parsed from, as numbers
FileColumn(c) ==
    CASE c = "x" -> <<op.c, op.c + 3, op.c + 6>>
      [] c = "y" -> <<op.c + 1, op.c + 4, op.c + 7>>
      [] c = "z" -> <<op.c + 2, op.c + 5, op.c + 8>>
      [] c = "radius" -> <<op.radius, op.radius, op.radius>>

\* C36: a neuron parsed by from_swc from three rows (root, mid, leaf, chained by
\* parent references, all radii 1) has soma None, root equal to the first row's
\* treenode id, and x, y, z and radius equal to 1000 times the file's values
C36_ParsedSwc ==
    Live /\ "ids" \in DOMAIN op /\ op.radius = 1 /\ heap[1].soma_detection_tag = DefaultSomaTag =>
       /\ op.name = "swc.read.soma" => ret.exc = "" /\ ret.val = None
       /\ op.name = "swc.read.root" =>
             ret.exc = "" /\ ret.val = [nan |-> FALSE, v |-> op.ids[1]]
       /\ \A c \in {"x", "y", "z", "radius"} :
             op.name = "swc.read." \o c =>
                /\ ret.exc = ""
                /\ ret.val = [i \in 1..3 |-> [nan |-> FALSE, v |-> 1000 * FileColumn(c)[i]]]


\* C40: reading n_nodes, n_connectors, n_branch_nodes, n_end_nodes, n_open_ends or
\* cable_length on a CatmaidNeuron without a node table returns 'NA' and fetches
\* nothing; the same read through a list holding such a neuron first fetches the
\* missing skeletons and yields no 'NA' (without a session the read raises)
C40_NAOnlyOnTheNeuron ==
    /\ ListCalled /\ op.name = "member.count" /\ ~Has(pre[prenl.neurons[op.i]], "nodes") =>
          /\ ret.exc = "" /\ ToString(ret.val) = ToString("NA")
          /\ calls = <<>>
          /\ heap = pre
    /\ ListCalled /\ op.name = "nl.read" /\ op.key \in Counts /\ Missing(pre, prenl) # <<>> =>
          IF nl_remote_instance(pre, prenl).exc # "" THEN ret.exc # ""
          ELSE /\ ret.exc = ""
               /\ calls = <<Call("get_neuron", SkidsOf(pre, Missing(pre, prenl)),
                                 nl_remote_instance(pre, prenl).val)>>
               /\ Missing(heap, nl) = <<>>
               /\ \A i \in 1..Len(ret.val) : ToString(ret.val[i]) # ToString("NA")

\* a count read on a list of two, one member fetched before and one not
C40_Witness ==
    /\ ListCalled /\ op.name = "nl.read" /\ op.key \in Counts
    /\ Len(prenl.neurons) = 2 /\ Len(Missing(pre, prenl)) = 1
    /\ ret.exc = "" /\ Len(ret.val) = 2

====
